----------------------------- MODULE ServerLive -----------------------------
(***************************************************************************)
(* What the tasks of Server get done in the end, under a load that never   *)
(* ends: the bound on messages is lifted here, so that nothing comes about *)
(* merely because there is nothing left to receive.                        *)
(***************************************************************************)
EXTENDS Server

\* The clients have more to send: MaxMessages does not bound a behaviour.
Replenish ==
  /\ budget = 0
  /\ budget' = MaxMessages
  /\ UNCHANGED <<now, db, lock, poisoned, pc, req, reply, scan, expiry>>

EndlessNext == Next \/ Replenish

(***************************************************************************)
(* A task that can run without the mutex runs (the runtime is              *)
(* multi-threaded and no task waits for another inside its loop).  A task  *)
(* that asks for the mutex again and again, and finds it free again and    *)
(* again, gets it at some point.  Nothing obliges clients to connect or to *)
(* send, nor the clock to move.                                            *)
(***************************************************************************)
EndlessSpec ==
  /\ Init /\ [][EndlessNext]_vars
  /\ \A c \in Conns : SF_vars(Locks(c)) /\ WF_vars(Proceed(c))
  /\ SF_vars(ExpiryTask)

\* A key that stays in the map is drawn by one of infinitely many random samples (db.rs:57).
Drawn(k) == SF_vars(ExpiryBegin /\ k \in expiry'.left)

\* A command that was read is answered, or its connection ends (a poisoned mutex).
Answered ==
  \A c \in Conns : pc[c] = "waiting" ~> pc[c] \in {"replying", "closed"}

\* A panic with the mutex held takes every task that asks for the mutex with it.
PoisonEndsTheTasks ==
  /\ poisoned ~> expiry.at = "dead"
  /\ \A c \in Conns : (poisoned /\ pc[c] = "waiting") ~> pc[c] = "closed"

StoresDeadline == \E c \in Conns : Set(c) /\ req[c].expiration # None

(***************************************************************************)
(* The while loop of the expiry task (main.rs:37-39), which does not yield *)
(* to the runtime, comes to an end each time, unless objects with a        *)
(* deadline are stored for ever: no other traffic, and no map however full *)
(* of objects that do not expire, keeps it going.                          *)
(***************************************************************************)
PassesEnd ==
  []<>(expiry.at \in {"asleep", "dead"}) \/ []<><<StoresDeadline>>_vars

(***************************************************************************)
(* An object nobody asks for is removed once it has expired, or given a    *)
(* later deadline, as long as no task panics with the mutex held; also     *)
(* where the sample is smaller than the map and other entries are drawn    *)
(* before it (db.rs:55-57).                                                *)
(***************************************************************************)
ExpiredIsPurged ==
  \A k \in Texts :
    (k \in DOMAIN db /\ IsExpired(db[k], now)) ~> (k \notin DOMAIN db \/ Live(k) \/ poisoned)
=============================================================================
