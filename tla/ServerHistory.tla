---------------------------- MODULE ServerHistory ----------------------------
(***************************************************************************)
(* Server with two history variables, and the properties that do not need  *)
(* the clock to go forward.                                                *)
(***************************************************************************)
EXTENDS Server

VARIABLES
  latest,    \* the latest instant the clock has shown
  missing    \* keys a client was told are missing and that were not written since

hvars == <<vars, latest, missing>>

\* Commands that store something under their key when they succeed.
WriteCommands == {"set"} \cup ArithmeticCommands \cup PushCommands

\* c's command took effect in this step.
Ran(c, cmds) == pc[c] = "waiting" /\ req[c].cmd \in cmds /\ pc'[c] = "replying"

Wrote(k) ==
  \E c \in Conns : Ran(c, WriteCommands) /\ req[c].key = k /\ reply'[c].type # "error"

\* GET answers null, or EXISTS passes over a key without counting it.
FoundMissing(k) ==
  \E c \in Conns :
    \/ Ran(c, {"get"}) /\ req[c].key = k /\ reply'[c] = Null
    \/ /\ pc[c] = "scanning" /\ pc'[c] = "scanning"
       /\ scan.left # <<>> /\ scan'.left = Tail(scan.left)
       /\ Head(scan.left) = k
       /\ scan'.count = scan.count

HInit == Init /\ latest = now /\ missing = {}

HNext ==
  /\ Next
  /\ latest' = IF now' > latest THEN now' ELSE latest
  /\ missing' = {k \in Texts : (k \in missing \/ FoundMissing(k)) /\ ~Wrote(k)}

HSpec == HInit /\ [][HNext]_hvars

-----------------------------------------------------------------------------

(***************************************************************************)
(* A key a client was told is missing (GET: request.rs:50-54, EXISTS:      *)
(* request.rs:64-66) stays so until it is written again: what a command    *)
(* finds expired it removes, so that not even a clock that is set back     *)
(* brings it back.                                                         *)
(***************************************************************************)
MissingStaysMissing == missing \cap DOMAIN db = {}

(***************************************************************************)
(* Every key the expiry task is about to remove had expired at an instant  *)
(* the clock has shown: nothing can give the key a new object between the  *)
(* look at it and the removal by key (db.rs:48-75 holds the mutex).        *)
(***************************************************************************)
DoomedHaveExpired ==
  \A k \in expiry.doomed : k \in DOMAIN db /\ IsExpired(db[k], latest)

(***************************************************************************)
(* The count EXISTS has reached is never short: each of the keys it has    *)
(* looked at and that is in the map is in the count, once per occurrence.  *)
(* Only keys that expired during the command may be counted and be gone.   *)
(***************************************************************************)
ScanCountsWhatStays ==
  \A c \in Conns : pc[c] = "scanning" =>
    LET looked == 1 .. (Len(req[c].keys) - Len(scan.left))
        present == {i \in looked : req[c].keys[i] \in DOMAIN db}
    IN  scan.count \in Cardinality(present) .. Cardinality(looked)

\* The commands that name k, one of which takes effect in this step.
Named(k) ==
  \E c \in Conns :
    \/ Ran(c, {"del"}) /\ k \in ToSet(req[c].keys)
    \/ Ran(c, WriteCommands) /\ req[c].key = k

(***************************************************************************)
(* No object is lost or changed behind the clients' backs: one that does   *)
(* not survive a step unchanged was named by a DEL or a write that took    *)
(* effect, or its expiration has passed.  Lazy removals and the expiry     *)
(* task touch nothing else, in whatever order they come.                   *)
(***************************************************************************)
NoLiveLoss ==
  [][\A k \in DOMAIN db :
       \/ k \in DOMAIN db' /\ db'[k] = db[k]
       \/ Named(k)
       \/ IsExpired(db[k], latest)]_hvars

(***************************************************************************)
(* DEL counts without looking at expirations (request.rs:81-85).  Its      *)
(* count agrees all the same with what clients were told before: each live *)
(* key it names is in it, once however often it is named, and no key that  *)
(* a GET or an EXISTS has reported missing and nobody has written since.   *)
(* How many expired keys it counts in between is up to the expiry task.    *)
(***************************************************************************)
DelAgreesWithReads ==
  [][\A c \in Conns : Ran(c, {"del"}) =>
       LET keys == ToSet(req[c].keys)
       IN  reply'[c].number \in
             Cardinality({k \in keys : Live(k)}) .. Cardinality(keys \ missing)]_hvars

(***************************************************************************)
(* A deadline is changed by SET alone: arithmetic keeps that of the object *)
(* it finds (arithmetic.rs:36-41), unless it has passed, and then the key  *)
(* has none; nothing else touches one.                                     *)
(***************************************************************************)
DeadlineDiscipline ==
  [][\A k \in DOMAIN db \cap DOMAIN db' :
       db'[k].expiration # db[k].expiration =>
         \/ \E c \in Conns : Ran(c, {"set"}) /\ req[c].key = k
         \/ IsExpired(db[k], now) /\ db'[k].expiration = None]_hvars
=============================================================================
