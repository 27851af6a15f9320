------------------------------ MODULE EventLog ------------------------------
(***************************************************************************)
(* What the event buffer promises to the goroutines that wait on it, with  *)
(* no ring, no channels and no locks: an append-only log of which only the *)
(* last Size entries can still be read, and readers that move forward in   *)
(* it.  A reader may pass over a matching entry only when the entry can no *)
(* longer be read, and then it knows.                                      *)
(***************************************************************************)
EXTENDS Naturals, Sequences

CONSTANTS
    Size,               \* how many of the newest entries can be read
    Readers, Payloads, Filters,
    Positions,          \* the positions a reader's cursor may name
    Passes(_, _)        \* Passes(f, b): filter f lets payload b through

VARIABLES
    log,      \* every payload published
    shut,     \* the log is closed
    state,    \* of each reader: "idle", "called", "reading" or "returned"
    wants,    \* its filter
    at,       \* it has read or given up log[1..at]
    stale,    \* its cursor was of another log
    refused,  \* its cursor was no cursor
    missed,   \* it was told that entries were lost
    got       \* the entry it returned with, 0 for none

readerVars == <<state, wants, at, stale, refused, missed, got>>
vars       == <<log, shut, readerVars>>

Lost(s) == s + Size <= Len(log)

Init ==
    /\ log = <<>> /\ shut = FALSE
    /\ state = [r \in Readers |-> "idle"]
    /\ wants \in [Readers -> Filters]
    /\ at = [r \in Readers |-> 0]
    /\ stale = [r \in Readers |-> FALSE]
    /\ refused = [r \in Readers |-> FALSE]
    /\ missed = [r \in Readers |-> FALSE]
    /\ got = [r \in Readers |-> 0]

Publish(b) ==
    /\ ~shut
    /\ log' = Append(log, b)
    /\ UNCHANGED <<shut, readerVars>>

Shut ==
    /\ ~shut /\ shut' = TRUE
    /\ UNCHANGED <<log, readerVars>>

(* A new call: it reads after entry n, or from the first entry that can be *)
(* read when its cursor is of another log, or it has yet to learn its n.   *)
Enter(r, s, f, n, old, bad) ==
    /\ state' = [state EXCEPT ![r] = s]
    /\ wants' = [wants EXCEPT ![r] = f]
    /\ at' = [at EXCEPT ![r] = n]
    /\ stale' = [stale EXCEPT ![r] = old]
    /\ refused' = [refused EXCEPT ![r] = bad]
    /\ missed' = [missed EXCEPT ![r] = FALSE]
    /\ got' = [got EXCEPT ![r] = 0]
    /\ UNCHANGED <<log, shut>>

Call(r, f)      == state[r] \in {"idle", "returned"}
                       /\ Enter(r, "called", f, 0, FALSE, FALSE)
ReadFromNow(r)  == state[r] = "called"
                       /\ Enter(r, "reading", wants[r], Len(log), FALSE, FALSE)
ReadAfter(r, f, n) == state[r] \in {"idle", "returned"}
                       /\ Enter(r, "reading", f, n, FALSE, FALSE)
ReadStale(r, f) == state[r] \in {"idle", "returned"}
                       /\ Enter(r, "reading", f, 0, TRUE, FALSE)
ReadBad(r, f)   == state[r] \in {"idle", "returned"}
                       /\ Enter(r, "reading", f, 0, FALSE, TRUE)

(* A reader is told of a loss exactly when there was one at its place. *)
Told(r) == missed[r] \/ stale[r] \/ Lost(at[r] + 1)

(* Moving to n passes over what cannot be read any more and what the       *)
(* filter leaves out.                                                      *)
MayPass(r, n) ==
    /\ ~refused[r] /\ at[r] <= n /\ n <= Len(log)
    /\ \A s \in at[r] + 1 .. n : Passes(wants[r], log[s]) => Lost(s)

Advance(r) ==
    /\ state[r] = "reading" /\ ~shut
    /\ MayPass(r, Len(log))
    /\ at' = [at EXCEPT ![r] = Len(log)]
    /\ missed' = [missed EXCEPT ![r] = Told(r)]
    /\ stale' = [stale EXCEPT ![r] = FALSE]
    /\ UNCHANGED <<log, shut, state, wants, refused, got>>

(* The reader returns with the first entry that passes and can be read. *)
Deliver(r, n) ==
    /\ state[r] = "reading" /\ ~shut
    /\ n > at[r] /\ n <= Len(log)
    /\ MayPass(r, n - 1)
    /\ Passes(wants[r], log[n]) /\ ~Lost(n)
    /\ state' = [state EXCEPT ![r] = "returned"]
    /\ at' = [at EXCEPT ![r] = n]
    /\ missed' = [missed EXCEPT ![r] = Told(r)]
    /\ stale' = [stale EXCEPT ![r] = FALSE]
    /\ got' = [got EXCEPT ![r] = n]
    /\ UNCHANGED <<log, shut, wants, refused>>

(* The reader gives up, or the log is shut or refuses its cursor. *)
Stop(r) ==
    /\ state[r] = "reading"
    /\ state' = [state EXCEPT ![r] = "returned"]
    /\ UNCHANGED <<log, shut, wants, at, stale, refused, missed, got>>

Next ==
    \/ \E b \in Payloads : Publish(b)
    \/ Shut
    \/ \E r \in Readers :
        \/ \E f \in Filters : \/ Call(r, f) \/ ReadStale(r, f) \/ ReadBad(r, f)
                              \/ \E n \in Positions : ReadAfter(r, f, n)
        \/ ReadFromNow(r) \/ Advance(r) \/ Stop(r)
        \/ \E n \in at[r] + 1 .. Len(log) : Deliver(r, n)

Spec == Init /\ [][Next]_vars
=============================================================================
