----------------------------- MODULE SeatLocks -----------------------------
(***************************************************************************)
(* The temporary seat locks of one showtime, as RedisService keeps them:   *)
(* one key lock:seat:{showtimeId}:{seatId} per seat, whose value is the    *)
(* token (reservationId) of the hold request that won it.  Every command   *)
(* is one atomic step of the Redis server.  The 600-second TTL is          *)
(* abstracted to "may run out at any moment": a request of the backend may *)
(* be arbitrarily slow, so no interleaving is excluded by a clock.         *)
(***************************************************************************)

CONSTANTS
  Seats,          \* the seats of the showtime
  Reservations,   \* the reservation tokens (res_<uuid>), one per hold request
  NoRes           \* the value of a key that does not exist

ASSUME NoResAssumption == NoRes \notin Reservations

VARIABLES
  lock,   \* lock[s]: the token stored under the key of seat s
  gone    \* history: gone[r] are the seats whose lock ran out under the
          \* token r, or was given back with it

LockTypeOK ==
  /\ lock \in [Seats -> Reservations \cup {NoRes}]
  /\ gone \in [Reservations -> SUBSET Seats]

LockInit ==
  /\ lock = [s \in Seats |-> NoRes]
  /\ gone = [r \in Reservations |-> {}]

(* GET: the holder check of a checkout. *)
HeldBy(s, r) == lock[s] = r

(* SET key token NX EX 600 that wins: the key did not exist. *)
Acquire(s, r) ==
  /\ lock[s] = NoRes
  /\ lock' = [lock EXCEPT ![s] = r]
  /\ UNCHANGED gone

(* SET key token NX EX 600 that loses: somebody (maybe r itself) is there. *)
Occupied(s) ==
  /\ lock[s] # NoRes
  /\ UNCHANGED <<lock, gone>>

Delete(s) == lock' = [lock EXCEPT ![s] = NoRes]

LockEnds(s, r) == gone' = [gone EXCEPT ![r] = @ \cup {s}]

ReleaseBug(s, r) == Delete(s) /\ LockEnds(s, r)

ReleaseUntilOwnedBug(s, r) == lock[s] = r /\ Delete(s) /\ LockEnds(s, r)

(* The Lua script: delete the key only if it still holds the caller's      *)
(* token.                                                                  *)
Release(s, r) ==
  \/ lock[s] = r /\ Delete(s) /\ LockEnds(s, r)
  \/ lock[s] # r /\ UNCHANGED <<lock, gone>>

(* The unconditional DEL of the payment callbacks. *)
ForceRelease(s) == Delete(s) /\ UNCHANGED gone

(* Redis drops the key because its TTL ran out. *)
RunOut(s) ==
  /\ lock[s] # NoRes
  /\ Delete(s) /\ LockEnds(s, lock[s])
=============================================================================
