-------------------------- MODULE AndroidSeenCache --------------------------
(***************************************************************************)
(* The packet ids of src/app/android/.../MeshService.java: a concurrent    *)
(* map without a limit of its own, filled by the callbacks of the GATT     *)
(* server, and a thread that every 30 seconds drops what has expired and   *)
(* then, one at a time, what is over SEEN_CACHE_MAX.  The main thread      *)
(* starts that thread before it sets the flag the thread tests.            *)
(*                                                                         *)
(* One service object: a later start is another object with a cache of its *)
(* own.  The callbacks come one after the other (the Bluetooth stack sends *)
(* them over one binder object), but run beside the other two threads.     *)
(***************************************************************************)
EXTENDS Integers, Sequences, FiniteSets

CONSTANTS
    Key,         \* packet ids
    NoKey,       \* "no id"
    CacheMax,    \* SEEN_CACHE_MAX
    MaxAge,      \* SEEN_CACHE_TTL_MS, in ticks of the clock
    MaxClock,    \* bound on the clock
    MaxAdds      \* bound on the ids stored

ASSUME AndroidAssumption ==
    /\ NoKey \notin Key
    /\ CacheMax \in Nat \ {0}
    /\ MaxAge \in Nat /\ MaxClock \in Nat /\ MaxAdds \in Nat

VARIABLES
    service,    \* the main thread: "created", "starting", "started", "destroyed"
    isRunning,
    cleaner,    \* the thread: "none", "testing", "asleep", "evicting", "finding",
                \* "removing", "ended"
    oldest,     \* local to the thread: the id it is about to remove, or NoKey
    seenCache,  \* a set of [id, at]
    asked,      \* the id a callback found new and is about to put, or NoKey
    clock,      \* System.currentTimeMillis()
    log         \* all that was stored since the start, in order; history

androidVars == <<service, isRunning, cleaner, oldest, seenCache, asked, clock, log>>

\* startMesh, with Bluetooth on ...
StartMesh ==
    /\ service = "created"
    /\ service' = "starting"
    /\ cleaner' = "testing"
    /\ UNCHANGED <<isRunning, oldest, seenCache, asked, clock, log>>

\* ... and the assignment after it in onStartCommand.
SetRunning ==
    /\ service = "starting"
    /\ service' = "started"
    /\ isRunning' = TRUE
    /\ UNCHANGED <<cleaner, oldest, seenCache, asked, clock, log>>

StopQuietly ==              \* mutant: the thread is not told
    /\ service = "started"
    /\ service' = "destroyed"
    /\ seenCache' = {}
    /\ log' = <<>>
    /\ UNCHANGED <<isRunning, cleaner, oldest, asked, clock>>

\* onDestroy
StopMesh ==
    /\ service = "started"
    /\ service' = "destroyed"
    /\ isRunning' = FALSE
    /\ seenCache' = {}
    /\ log' = <<>>
    /\ UNCHANGED <<cleaner, oldest, asked, clock>>

(***************************************************************************)
(* handleIncomingPacket: two calls, the threads may run between them.      *)
(***************************************************************************)
ContainsKey(id) ==
    /\ service # "created"
    /\ asked = NoKey
    /\ \A e \in seenCache : e.id # id
    /\ asked' = id
    /\ UNCHANGED <<service, isRunning, cleaner, oldest, seenCache, clock, log>>

PutKey ==
    LET new == [id |-> asked, at |-> clock]
    IN  /\ asked # NoKey
        /\ Len(log) < MaxAdds
        /\ seenCache' = {e \in seenCache : e.id # asked} \cup {new}
        /\ log' = Append(log, new)
        /\ asked' = NoKey
        /\ UNCHANGED <<service, isRunning, cleaner, oldest, clock>>

(***************************************************************************)
(* The thread.                                                             *)
(***************************************************************************)
TestRunning ==
    /\ cleaner = "testing"
    /\ cleaner' = IF isRunning THEN "asleep" ELSE "ended"
    /\ UNCHANGED <<service, isRunning, oldest, seenCache, asked, clock, log>>

OutdatedEarly(e) == clock - e.at >= MaxAge            \* mutant: >= for >

Outdated(e) == clock - e.at > MaxAge

RemoveOutdated ==
    /\ cleaner = "asleep"
    /\ cleaner' = "evicting"
    /\ seenCache' = {e \in seenCache : ~Outdated(e)}
    /\ UNCHANGED <<service, isRunning, oldest, asked, clock, log>>

\* The loop over the limit: its test, or the end of cleanSeenCache ...
TestSize ==
    /\ cleaner = "evicting"
    /\ cleaner' = IF Cardinality(seenCache) > CacheMax THEN "finding" ELSE "testing"
    /\ UNCHANGED <<service, isRunning, oldest, seenCache, asked, clock, log>>

\* ... the minimum, which is null if clear() was faster ...
FindOldest ==
    /\ cleaner = "finding"
    /\ cleaner' = "removing"
    /\ \/ \E e \in seenCache : /\ \A f \in seenCache : e.at <= f.at
                              /\ oldest' = e.id
       \/ seenCache = {} /\ oldest' = NoKey
    /\ UNCHANGED <<service, isRunning, seenCache, asked, clock, log>>

\* ... and remove, whatever the id stands for by now.
RemoveOldest ==
    /\ cleaner = "removing"
    /\ cleaner' = "evicting"
    /\ seenCache' = {e \in seenCache : e.id # oldest}
    /\ oldest' = NoKey
    /\ UNCHANGED <<service, isRunning, asked, clock, log>>

ClockTick ==
    /\ clock < MaxClock
    /\ clock' = clock + 1
    /\ UNCHANGED <<service, isRunning, cleaner, oldest, seenCache, asked, log>>

AndroidInit ==
    /\ service = "created"
    /\ isRunning = FALSE
    /\ cleaner = "none" /\ oldest = NoKey
    /\ seenCache = {}
    /\ asked = NoKey
    /\ clock = 0
    /\ log = <<>>

AndroidNext ==
    \/ StartMesh \/ SetRunning \/ StopMesh
    \/ \E id \in Key : ContainsKey(id)
    \/ PutKey
    \/ TestRunning \/ RemoveOutdated \/ TestSize \/ FindOldest \/ RemoveOldest
    \/ ClockTick

AndroidSpec == AndroidInit /\ [][AndroidNext]_androidVars

(***************************************************************************)
(* Properties.                                                             *)
(***************************************************************************)
AndroidTypeOK ==
    /\ service \in {"created", "starting", "started", "destroyed"}
    /\ isRunning = (service = "started")
    /\ cleaner \in {"none", "testing", "asleep", "evicting", "finding", "removing", "ended"}
    /\ oldest \in Key \cup {NoKey}
    /\ seenCache \subseteq [id : Key, at : 0 .. clock]
    /\ asked \in Key \cup {NoKey}
    /\ clock \in 0 .. MaxClock

(* Until the service is destroyed, a packet that came in the last MaxAge   *)
(* is known, unless more than CacheMax ids, itself included, were stored   *)
(* at the time it came or later: the eviction, one id at a time and in     *)
(* three steps beside callbacks that store more, takes no id that is not   *)
(* over the limit (MeshService.java:360, :402-418).  After onDestroy it    *)
(* may: clear() can come between the search and the removal, and a         *)
(* callback can store the id anew.                                         *)
KnownUnlessCrowded ==
    service # "destroyed" =>
      \A i \in DOMAIN log :
        LET younger == {log[j].id : j \in {k \in DOMAIN log : log[k].at >= log[i].at}}
        IN  clock - log[i].at <= MaxAge /\ Cardinality(younger) <= CacheMax
              => \E e \in seenCache : e.id = log[i].id

=============================================================================
