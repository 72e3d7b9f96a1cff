------------------------------- MODULE RefSet -------------------------------
(***************************************************************************)
(* What find_data of splitter.c promises its callers: a multiset of keys.  *)
(*                                                                         *)
(* The insert of a key adds one reference to it and its delete takes one   *)
(* away, each at one instant between the call and its answer.  A call is   *)
(* answered                                                                *)
(*   - OK if it has done its work, and a find of a key that was there at   *)
(*     some instant of the call;                                           *)
(*   - "not found" if it has not, and at some instant of the call the key  *)
(*     was absent, or, for a delete, was just being deleted by another;    *)
(*   - with a code of the memory layer, if it has not done its work.       *)
(***************************************************************************)
EXTENDS Naturals

CONSTANTS
  Thread,     \* the callers
  Keys,       \* the keys they use
  OK,         \* the answer of a call that succeeded
  MissCodes,  \* the answers that say the key is not there
  FailCodes   \* the answers of a memory layer in trouble

Operation == {"FIND", "INSERT", "DELETE"}

VARIABLES
  cnt,        \* the references to each key
  call,       \* the calls in progress: operation, key and whether it is done
  answer,     \* the code each thread was last answered with
  missed,     \* the threads whose key has been absent since they called
  seen        \* the threads whose key has been present since they called

vars == <<cnt, call, answer, missed, seen>>

NoCall == [op |-> "NONE", key |-> 0, done |-> FALSE]
Called(t) == call[t].op # "NONE"
Open(t, op) == call[t].op = op /\ ~call[t].done

\* For the call of t, its key is not there.
Absent(t) ==
  \/ cnt[call[t].key] = 0
  \/ /\ Open(t, "DELETE")
     /\ \E u \in Thread \ {t} : Open(u, "DELETE") /\ call[u].key = call[t].key

\* missed and seen record what has held at some instant of a call.
Histories ==
  /\ missed' = {t \in Thread : Called(t)' /\ (t \in missed \/ Absent(t)')}
  /\ seen' = {t \in Thread : Called(t)' /\ (t \in seen \/ (cnt[call[t].key] > 0)')}

Init ==
  /\ cnt = [k \in Keys |-> 0]
  /\ call = [t \in Thread |-> NoCall]
  /\ answer = [t \in Thread |-> OK]
  /\ missed = {}
  /\ seen = {}
-----------------------------------------------------------------------------
Invoke(t) ==
  /\ ~Called(t)
  /\ \E op \in Operation, key \in Keys :
       call' = [call EXCEPT ![t] = [op |-> op, key |-> key, done |-> FALSE]]
  /\ UNCHANGED <<cnt, answer>>

Finish(t) == call' = [call EXCEPT ![t].done = TRUE]

InsertKey(t) ==
  /\ Open(t, "INSERT")
  /\ cnt' = [cnt EXCEPT ![call[t].key] = @ + 1]
  /\ Finish(t)
  /\ UNCHANGED answer

DeleteKey(t) ==
  /\ Open(t, "DELETE")
  /\ cnt[call[t].key] > 0
  /\ cnt' = [cnt EXCEPT ![call[t].key] = @ - 1]
  /\ Finish(t)
  /\ UNCHANGED answer

Answer(t) ==
  /\ Called(t)
  /\ \/ /\ call[t].done \/ (Open(t, "FIND") /\ t \in seen)
        /\ answer' = [answer EXCEPT ![t] = OK]
     \/ /\ Open(t, "FIND") \/ Open(t, "DELETE")
        /\ t \in missed
        /\ \E code \in MissCodes : answer' = [answer EXCEPT ![t] = code]
     \/ /\ ~call[t].done
        /\ \E code \in FailCodes : answer' = [answer EXCEPT ![t] = code]
  /\ call' = [call EXCEPT ![t] = NoCall]
  /\ UNCHANGED cnt

Next ==
  /\ \E t \in Thread : Invoke(t) \/ InsertKey(t) \/ DeleteKey(t) \/ Answer(t)
  /\ Histories

Spec == Init /\ [][Next]_vars
=============================================================================
