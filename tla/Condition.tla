------------------------------ MODULE Condition ------------------------------
(***************************************************************************)
(* muduo::Condition over a map from threads to where they are.  A thread   *)
(* that waits is at a control point of its own and has given up the mutex; *)
(* a notify moves sleepers to the point where they contend for it again.   *)
(***************************************************************************)
At(pc, where) == {t \in DOMAIN pc : pc[t] = where}

(* notify(): any one sleeper, or nobody when nobody sleeps. *)
Notify(pc, where, to) ==
  IF At(pc, where) = {} THEN {pc} ELSE {[pc EXCEPT ![t] = to] : t \in At(pc, where)}

(* notifyAll() *)
NotifyAll(pc, where, to) == [t \in DOMAIN pc |-> IF pc[t] = where THEN to ELSE pc[t]]

(* A return of pthread_cond_wait() that nobody asked for. *)
Spurious(pc, where, to) == {[pc EXCEPT ![t] = to] : t \in At(pc, where)}
=============================================================================
