-------------------------- MODULE RabbitMQAdapter --------------------------
(***************************************************************************)
(* The RabbitMQ adapter (internal/broker/adapters/rabbitmq.go) as the      *)
(* goroutines that meet in it see it: the owner that connects and          *)
(* disconnects it, the HTTP requests that publish, the health and stats    *)
(* requests, and the watcher each successful Connect leaves behind.  The   *)
(* AMQP client library appears as the state of its connections and         *)
(* channels.  A step of this module runs from one blocking point of a      *)
(* goroutine (a lock, a network call) to the next.                         *)
(***************************************************************************)
EXTENDS Naturals, FiniteSets, RWMutex

CONSTANTS
    Calls,          \* calls of Publish, one message each
    Probes,         \* requests to the health and stats endpoints
    Conns,          \* connections amqp.Dial can return; names their watchers too
    Main,           \* the goroutine that owns the adapter
    Nil,            \* Go's nil pointer
    Reconnects      \* may the owner connect again once the flag is down?

Goroutines == Calls \cup Probes \cup Conns \cup {Main}

ASSUME DistinctNames ==
    /\ Calls \cap Probes = {} /\ Calls \cap Conns = {} /\ Probes \cap Conns = {}
    /\ Main \notin Calls \cup Probes \cup Conns
    /\ Nil \notin Goroutines

ASSUME FiniteCalls == IsFiniteSet(Calls)

ASSUME ReconnectsIsBoolean == Reconnects \in BOOLEAN

VARIABLES
    conn, channel, connected, mu,     \* fields of RabbitMQAdapter
    published, failed, statsMu,       \* fields of its Stats
    connState, chanState,             \* the library's connections and channels
    mainPc, dialled,                  \* the owner; conn local to Connect
    callPc, snapshot, result, loaded, \* Publish: its copy of the channel, its
                                      \*   answer, the counter it is incrementing
    handed,                           \* calls whose message was written to a channel
    probePc, status, seen, shown,     \* Health: its status, the counters and the
                                      \*   "connected" of its body
    watchPc, watched                  \* handleConnectionErrors

adapter == <<conn, channel, connected>>
counters == <<published, failed>>
library == <<connState, chanState>>
owner == <<mainPc, dialled>>
publishing == <<callPc, snapshot, result, loaded, handed>>
probing == <<probePc, status, seen, shown>>
watching == <<watchPc, watched>>

vars == <<adapter, mu, counters, statsMu, library, owner, publishing, probing, watching>>
-----------------------------------------------------------------------------
ConnStates == {"none", "open", "lost", "closed"}    \* lost: with an error
ChanStates == {"none", "open", "closed"}
MainPcs == {"idle", "connect", "channel", "declare",
            "disconnect", "closeChannel", "closeConn"}
CallPcs == {"idle", "called", "check", "ready", "stats", "counting", "storing", "done"}
Results == {"none", "ok", "error", "refused"}
ProbePcs == {"idle", "isHealthy", "getStats", "inStats", "counted", "done"}
Statuses == {"none", "healthy", "unhealthy"}
WatchPcs == {"none", "spawned", "watching", "locking", "done"}

TypeOK ==
    /\ conn \in Conns \cup {Nil} /\ channel \in Conns \cup {Nil}
    /\ connected \in BOOLEAN
    /\ mu \in LockValue(Goroutines) /\ statsMu \in LockValue(Goroutines)
    /\ published \in Nat /\ failed \in Nat
    /\ connState \in [Conns -> ConnStates]
    /\ chanState \in [Conns -> ChanStates]
    /\ mainPc \in MainPcs /\ dialled \in Conns \cup {Nil}
    /\ callPc \in [Calls -> CallPcs]
    /\ snapshot \in [Calls -> Conns \cup {Nil}]
    /\ result \in [Calls -> Results]
    /\ loaded \in [Calls -> Nat]
    /\ handed \in SUBSET Calls
    /\ probePc \in [Probes -> ProbePcs]
    /\ status \in [Probes -> Statuses]
    /\ seen \in [Probes -> Nat \X Nat]
    /\ shown \in [Probes -> BOOLEAN]
    /\ watchPc \in [Conns -> WatchPcs]
    /\ watched \in [Conns -> Conns \cup {Nil}]

\* NewRabbitMQAdapter: the zero value of every field.
Init ==
    /\ conn = Nil /\ channel = Nil /\ connected = FALSE
    /\ mu = Unlocked /\ statsMu = Unlocked
    /\ published = 0 /\ failed = 0
    /\ connState = [c \in Conns |-> "none"]
    /\ chanState = [c \in Conns |-> "none"]
    /\ mainPc = "idle" /\ dialled = Nil
    /\ callPc = [c \in Calls |-> "idle"]
    /\ snapshot = [c \in Calls |-> Nil]
    /\ result = [c \in Calls |-> "none"]
    /\ loaded = [c \in Calls |-> 0]
    /\ handed = {}
    /\ probePc = [h \in Probes |-> "idle"]
    /\ status = [h \in Probes |-> "none"]
    /\ seen = [h \in Probes |-> <<0, 0>>]
    /\ shown = [h \in Probes |-> FALSE]
    /\ watchPc = [w \in Conns |-> "none"]
    /\ watched = [w \in Conns |-> Nil]
-----------------------------------------------------------------------------
(***************************************************************************)
(* The AMQP client library.  A channel lives on one connection and is      *)
(* named after it: Connect opens exactly one channel per connection.       *)
(***************************************************************************)

\* conn.Close: without effect on a connection that has ended already.
CloseConnection(c) ==
    [connState EXCEPT ![c] = IF @ = "open" THEN "closed" ELSE @]

CloseChannel(c) ==
    [chanState EXCEPT ![c] = IF @ = "open" THEN "closed" ELSE @]

\* The server or the network ends a connection, and its channel with it.
ConnectionLost(c) ==
    /\ connState[c] = "open"
    /\ connState' = [connState EXCEPT ![c] = "lost"]
    /\ chanState' = CloseChannel(c)
    /\ UNCHANGED <<adapter, mu, counters, statsMu, owner, publishing, probing, watching>>

\* A channel exception: the server closes the channel, the connection stays.
ChannelLost(c) ==
    /\ chanState[c] = "open"
    /\ chanState' = CloseChannel(c)
    /\ UNCHANGED <<adapter, mu, counters, statsMu, connState, owner,
                   publishing, probing, watching>>
-----------------------------------------------------------------------------
(***************************************************************************)
(* Connect.  mu is held from the Dial to the return, whatever the outcome. *)
(* The service calls it once (server.New); the interface lets an owner     *)
(* that finds the adapter down connect it again.                           *)
(***************************************************************************)
ConnectCall ==
    /\ mainPc = "idle"
    /\ conn = Nil \/ (Reconnects /\ ~connected)
    /\ CanAnnounce(mu)
    /\ mu' = Announce(mu, Main)
    /\ mainPc' = "connect"
    /\ UNCHANGED <<adapter, counters, statsMu, library, dialled,
                   publishing, probing, watching>>

ConnectDial ==
    /\ mainPc = "connect"
    /\ CanEnter(mu, Main)
    /\ \/ \E c \in Conns :
            /\ connState[c] = "none"
            /\ connState' = [connState EXCEPT ![c] = "open"]
            /\ dialled' = c
            /\ mainPc' = "channel"
            /\ UNCHANGED mu
       \/ /\ mainPc' = "idle"
          /\ mu' = Unlock(mu)
          /\ UNCHANGED <<connState, dialled>>
    /\ UNCHANGED <<adapter, counters, statsMu, chanState, publishing, probing, watching>>

\* Mutant: an error path that forgets what was opened.
ConnectFailedLeaks ==
    /\ dialled' = Nil
    /\ mainPc' = "idle"
    /\ mu' = Unlock(mu)
    /\ UNCHANGED <<adapter, library, watching>>

\* The error paths of Connect close what it has opened and return.
ConnectFailed ==
    /\ connState' = CloseConnection(dialled)
    /\ chanState' = CloseChannel(dialled)
    /\ dialled' = Nil
    /\ mainPc' = "idle"
    /\ mu' = Unlock(mu)
    /\ UNCHANGED <<adapter, watching>>

ConnectChannel ==
    /\ mainPc = "channel"
    /\ \/ /\ connState[dialled] = "open"
          /\ chanState' = [chanState EXCEPT ![dialled] = "open"]
          /\ mainPc' = "declare"
          /\ UNCHANGED <<adapter, mu, connState, dialled, watching>>
       \/ ConnectFailed
    /\ UNCHANGED <<counters, statsMu, publishing, probing>>

\* The exchange is declared: the fields are set and the watcher is spawned.
ConnectDone ==
    /\ chanState[dialled] = "open"
    /\ conn' = dialled /\ channel' = dialled /\ connected' = TRUE
    /\ watchPc' = [watchPc EXCEPT ![dialled] = "spawned"]
    /\ dialled' = Nil
    /\ mainPc' = "idle"
    /\ mu' = Unlock(mu)
    /\ UNCHANGED <<library, watched>>

ConnectDeclare ==
    /\ mainPc = "declare"
    /\ ConnectDone \/ ConnectFailed
    /\ UNCHANGED <<counters, statsMu, publishing, probing>>
-----------------------------------------------------------------------------
(***************************************************************************)
(* Disconnect.  mu is held while the channel and the connection close.     *)
(***************************************************************************)
DisconnectCall ==
    /\ mainPc = "idle"
    /\ CanAnnounce(mu)
    /\ mu' = Announce(mu, Main)
    /\ mainPc' = "disconnect"
    /\ UNCHANGED <<adapter, counters, statsMu, library, dialled,
                   publishing, probing, watching>>

\* Mutant: Disconnect only takes the flag down.
DisconnectCheckFlagOnly ==
    /\ mainPc = "disconnect"
    /\ CanEnter(mu, Main)
    /\ connected' = FALSE
    /\ mainPc' = "idle"
    /\ mu' = Unlock(mu)
    /\ UNCHANGED <<conn, channel, counters, statsMu, library, dialled,
                   publishing, probing, watching>>

DisconnectCheck ==
    /\ mainPc = "disconnect"
    /\ CanEnter(mu, Main)
    /\ \/ connected /\ mainPc' = "closeChannel" /\ UNCHANGED mu
       \/ ~connected /\ mainPc' = "idle" /\ mu' = Unlock(mu)
    /\ UNCHANGED <<adapter, counters, statsMu, library, dialled,
                   publishing, probing, watching>>

DisconnectChannel ==
    /\ mainPc = "closeChannel"
    /\ chanState' = IF channel # Nil THEN CloseChannel(channel) ELSE chanState
    /\ mainPc' = "closeConn"
    /\ UNCHANGED <<adapter, mu, counters, statsMu, connState, dialled,
                   publishing, probing, watching>>

DisconnectConn ==
    /\ mainPc = "closeConn"
    /\ connState' = IF conn # Nil THEN CloseConnection(conn) ELSE connState
    /\ connected' = FALSE
    /\ mainPc' = "idle"
    /\ mu' = Unlock(mu)
    /\ UNCHANGED <<conn, channel, counters, statsMu, chanState, dialled,
                   publishing, probing, watching>>
-----------------------------------------------------------------------------
(***************************************************************************)
(* Publish.                                                                *)
(***************************************************************************)
PublishCall(c) ==
    /\ callPc[c] = "idle"
    /\ callPc' = [callPc EXCEPT ![c] = "called"]
    /\ UNCHANGED <<adapter, mu, counters, statsMu, library, owner,
                   snapshot, result, loaded, handed, probing, watching>>

PublishRLock(c) ==
    /\ callPc[c] = "called"
    /\ CanRLock(mu)
    /\ mu' = RLock(mu, c)
    /\ callPc' = [callPc EXCEPT ![c] = "check"]
    /\ UNCHANGED <<adapter, counters, statsMu, library, owner,
                   snapshot, result, loaded, handed, probing, watching>>

Answer(c, r, next) ==
    /\ result' = [result EXCEPT ![c] = r]
    /\ callPc' = [callPc EXCEPT ![c] = next]

\* Mutant: the refused branch keeps the read lock.
PublishCheckKeepsLock(c) ==
    /\ callPc[c] = "check"
    /\ IF connected /\ channel # Nil
       THEN /\ mu' = RUnlock(mu, c)
            /\ snapshot' = [snapshot EXCEPT ![c] = channel]
            /\ callPc' = [callPc EXCEPT ![c] = "ready"]
            /\ UNCHANGED result
       ELSE Answer(c, "refused", "done") /\ UNCHANGED <<mu, snapshot>>
    /\ UNCHANGED <<adapter, counters, statsMu, library, owner, loaded, handed, probing, watching>>

\* Under the read lock: refuse, or take a copy of the channel and let go.
PublishCheck(c) ==
    /\ callPc[c] = "check"
    /\ mu' = RUnlock(mu, c)
    /\ \/ /\ ~connected \/ channel = Nil
          /\ Answer(c, "refused", "done")
          /\ UNCHANGED snapshot
       \/ /\ connected /\ channel # Nil
          /\ snapshot' = [snapshot EXCEPT ![c] = channel]
          /\ callPc' = [callPc EXCEPT ![c] = "ready"]
          /\ UNCHANGED result
    /\ UNCHANGED <<adapter, counters, statsMu, library, owner, loaded, handed, probing, watching>>

\* Validate or ToJSON rejects the message.
PublishReject(c) ==
    /\ callPc[c] = "ready"
    /\ Answer(c, "error", "stats")
    /\ UNCHANGED <<adapter, mu, counters, statsMu, library, owner,
                   snapshot, loaded, handed, probing, watching>>

\* Mutant: the error of PublishWithContext is dropped.
PublishSendIgnoresError(c) ==
    /\ callPc[c] = "ready"
    /\ handed' = IF chanState[snapshot[c]] = "open" THEN handed \cup {c} ELSE handed
    /\ Answer(c, "ok", "stats")
    /\ UNCHANGED <<adapter, mu, counters, statsMu, library, owner,
                   snapshot, loaded, probing, watching>>

\* PublishWithContext on the copied channel: written, or failed.  A write may
\* fail on a channel that is not known to be closed yet.
PublishSend(c) ==
    /\ callPc[c] = "ready"
    /\ \/ /\ chanState[snapshot[c]] = "open"
          /\ handed' = handed \cup {c}
          /\ Answer(c, "ok", "stats")
       \/ /\ Answer(c, "error", "stats")
          /\ UNCHANGED handed
    /\ UNCHANGED <<adapter, mu, counters, statsMu, library, owner,
                   snapshot, loaded, probing, watching>>

\* updateStats, up to the point where the write lock is announced.
UpdateStatsLock(c) ==
    /\ callPc[c] = "stats"
    /\ CanAnnounce(statsMu)
    /\ statsMu' = Announce(statsMu, c)
    /\ callPc' = [callPc EXCEPT ![c] = "counting"]
    /\ UNCHANGED <<adapter, mu, counters, library, owner,
                   snapshot, result, loaded, handed, probing, watching>>

\* Mutant: stats.mu is released between the load and the store.
UpdateStatsLoadUnlocks(c) ==
    /\ callPc[c] = "counting"
    /\ CanEnter(statsMu, c)
    /\ loaded' = [loaded EXCEPT ![c] = IF result[c] = "ok" THEN published ELSE failed]
    /\ callPc' = [callPc EXCEPT ![c] = "storing"]
    /\ statsMu' = Unlock(statsMu)
    /\ UNCHANGED <<adapter, mu, counters, library, owner,
                   snapshot, result, handed, probing, watching>>

\* updateStats under the lock: MessagesPublished++ or MessagesFailed++ is a
\* load and a store.
UpdateStatsLoad(c) ==
    /\ callPc[c] = "counting"
    /\ CanEnter(statsMu, c)
    /\ loaded' = [loaded EXCEPT ![c] = IF result[c] = "ok" THEN published ELSE failed]
    /\ callPc' = [callPc EXCEPT ![c] = "storing"]
    /\ UNCHANGED <<adapter, mu, counters, statsMu, library, owner,
                   snapshot, result, handed, probing, watching>>

\* Mutant: a failure takes back a success that was never counted.
UpdateStatsStoreTakesBack(c) ==
    /\ callPc[c] = "storing"
    /\ \/ result[c] = "ok" /\ published' = loaded[c] + 1 /\ UNCHANGED failed
       \/ result[c] = "error" /\ failed' = loaded[c] + 1 /\ published' = published - 1
    /\ statsMu' = Unlock(statsMu)
    /\ callPc' = [callPc EXCEPT ![c] = "done"]
    /\ UNCHANGED <<adapter, mu, library, owner, snapshot, result, loaded, handed,
                   probing, watching>>

\* The store, the unlock and the return of Publish.
UpdateStatsStore(c) ==
    /\ callPc[c] = "storing"
    /\ \/ result[c] = "ok" /\ published' = loaded[c] + 1 /\ UNCHANGED failed
       \/ result[c] = "error" /\ failed' = loaded[c] + 1 /\ UNCHANGED published
    /\ statsMu' = Unlock(statsMu)
    /\ callPc' = [callPc EXCEPT ![c] = "done"]
    /\ UNCHANGED <<adapter, mu, library, owner, snapshot, result, loaded, handed,
                   probing, watching>>
-----------------------------------------------------------------------------
(***************************************************************************)
(* The health handler asks IsHealthy and then GetStats, which asks         *)
(* IsHealthy again; the stats handler asks GetStats only.                  *)
(***************************************************************************)
IsHealthy ==
    connected /\ conn # Nil /\ connState[conn] = "open"

HealthCall(h) ==
    /\ probePc[h] = "idle"
    /\ probePc' = [probePc EXCEPT ![h] = "isHealthy"]
    /\ UNCHANGED <<adapter, mu, counters, statsMu, library, owner,
                   publishing, status, seen, shown, watching>>

StatsCall(h) ==
    /\ probePc[h] = "idle"
    /\ probePc' = [probePc EXCEPT ![h] = "getStats"]
    /\ UNCHANGED <<adapter, mu, counters, statsMu, library, owner,
                   publishing, status, seen, shown, watching>>

\* Nothing blocks between the RLock and the RUnlock of IsHealthy.
HealthStatus(h) ==
    /\ probePc[h] = "isHealthy"
    /\ CanRLock(mu)
    /\ status' = [status EXCEPT ![h] = IF IsHealthy THEN "healthy" ELSE "unhealthy"]
    /\ probePc' = [probePc EXCEPT ![h] = "getStats"]
    /\ UNCHANGED <<adapter, mu, counters, statsMu, library, owner,
                   publishing, seen, shown, watching>>

\* Mutant: GetStats reads the counters without stats.mu.
GetStatsLockForgotten(h) ==
    /\ probePc[h] = "getStats"
    /\ probePc' = [probePc EXCEPT ![h] = "inStats"]
    /\ UNCHANGED <<adapter, mu, counters, statsMu, library, owner, publishing,
                   status, seen, shown, watching>>

GetStatsLock(h) ==
    /\ probePc[h] = "getStats"
    /\ CanRLock(statsMu)
    /\ statsMu' = RLock(statsMu, h)
    /\ probePc' = [probePc EXCEPT ![h] = "inStats"]
    /\ UNCHANGED <<adapter, mu, counters, library, owner, publishing,
                   status, seen, shown, watching>>

\* The counters are read first, then IsHealthy is called.
GetStatsCounters(h) ==
    /\ probePc[h] = "inStats"
    /\ seen' = [seen EXCEPT ![h] = counters]
    /\ probePc' = [probePc EXCEPT ![h] = "counted"]
    /\ UNCHANGED <<adapter, mu, counters, statsMu, library, owner, publishing,
                   status, shown, watching>>

\* The nested IsHealthy: mu is read-locked with stats.mu read-locked.
GetStats(h) ==
    /\ probePc[h] = "counted"
    /\ CanRLock(mu)
    /\ shown' = [shown EXCEPT ![h] = IsHealthy]
    /\ statsMu' = RUnlock(statsMu, h)
    /\ probePc' = [probePc EXCEPT ![h] = "done"]
    /\ UNCHANGED <<adapter, mu, counters, library, owner, publishing, status, seen,
                   watching>>
-----------------------------------------------------------------------------
(***************************************************************************)
(* handleConnectionErrors, run by the goroutine Connect spawned for w.     *)
(***************************************************************************)

\* r.conn is read without the lock.  NotifyClose on a connection that has
\* already ended closes the Go channel at once: the receive yields nil.
WatchRegister(w) ==
    /\ watchPc[w] = "spawned"
    /\ watched' = [watched EXCEPT ![w] = conn]
    /\ watchPc' = [watchPc EXCEPT ![w] =
                       IF connState[conn] = "open" THEN "watching" ELSE "done"]
    /\ UNCHANGED <<adapter, mu, counters, statsMu, library, owner, publishing, probing>>

\* A graceful close: the receive yields nil and the goroutine ends.
WatchClosed(w) ==
    /\ watchPc[w] = "watching"
    /\ connState[watched[w]] = "closed"
    /\ watchPc' = [watchPc EXCEPT ![w] = "done"]
    /\ UNCHANGED <<adapter, mu, counters, statsMu, library, owner, publishing,
                   probing, watched>>

\* A loss: the receive yields the error and the goroutine goes for the lock.
WatchLost(w) ==
    /\ watchPc[w] = "watching"
    /\ connState[watched[w]] = "lost"
    /\ CanAnnounce(mu)
    /\ mu' = Announce(mu, w)
    /\ watchPc' = [watchPc EXCEPT ![w] = "locking"]
    /\ UNCHANGED <<adapter, counters, statsMu, library, owner, publishing,
                   probing, watched>>

\* Mutant: the loss is logged and the flag stays up.
WatchClearOnlyLogs(w) ==
    /\ watchPc[w] = "locking"
    /\ CanEnter(mu, w)
    /\ mu' = Unlock(mu)
    /\ watchPc' = [watchPc EXCEPT ![w] = "done"]
    /\ UNCHANGED <<adapter, counters, statsMu, library, owner, publishing,
                   probing, watched>>

WatchClear(w) ==
    /\ watchPc[w] = "locking"
    /\ CanEnter(mu, w)
    /\ connected' = FALSE
    /\ mu' = Unlock(mu)
    /\ watchPc' = [watchPc EXCEPT ![w] = "done"]
    /\ UNCHANGED <<conn, channel, counters, statsMu, library, owner, publishing,
                   probing, watched>>
-----------------------------------------------------------------------------
\* What each goroutine does once it has been called or spawned.
OwnerStep ==
    \/ ConnectDial \/ ConnectChannel \/ ConnectDeclare
    \/ DisconnectCheck \/ DisconnectChannel \/ DisconnectConn

PublishStep(c) ==
    \/ PublishRLock(c) \/ PublishCheck(c) \/ PublishReject(c) \/ PublishSend(c)
    \/ UpdateStatsLock(c) \/ UpdateStatsLoad(c) \/ UpdateStatsStore(c)

ProbeStep(h) ==
    HealthStatus(h) \/ GetStatsLock(h) \/ GetStatsCounters(h) \/ GetStats(h)

WatchStep(w) == WatchRegister(w) \/ WatchClosed(w) \/ WatchLost(w) \/ WatchClear(w)

Next ==
    \/ ConnectCall \/ DisconnectCall \/ OwnerStep
    \/ \E c \in Calls : PublishCall(c) \/ PublishStep(c)
    \/ \E h \in Probes : HealthCall(h) \/ StatsCall(h) \/ ProbeStep(h)
    \/ \E w \in Conns : WatchStep(w)
    \/ \E c \in Conns : ConnectionLost(c) \/ ChannelLost(c)

(***************************************************************************)
(* A goroutine that can run does.  Strong fairness because the locks are   *)
(* free only between their holders: sync.RWMutex lets the readers a writer *)
(* kept out go first when it unlocks, and keeps new readers behind a       *)
(* waiting writer.  Nobody has to call anything, and nothing has to break. *)
(***************************************************************************)
Fairness ==
    /\ SF_vars(OwnerStep)
    /\ \A c \in Calls : SF_vars(PublishStep(c))
    /\ \A h \in Probes : SF_vars(ProbeStep(h))
    /\ \A w \in Conns : SF_vars(WatchStep(w))

Spec == Init /\ [][Next]_vars

FairSpec == Spec /\ Fairness
-----------------------------------------------------------------------------
(***************************************************************************)
(* Properties.                                                             *)
(***************************************************************************)

\* The statistics tell the truth at every instant: MessagesPublished counts
\* exactly the calls that returned nil and MessagesFailed exactly those that
\* returned an error other than "not connected", whatever order concurrent
\* calls of updateStats come in (rabbitmq.go, Publish and updateStats).
CountersExact ==
    /\ published = Cardinality({c \in Calls : callPc[c] = "done" /\ result[c] = "ok"})
    /\ failed = Cardinality({c \in Calls : callPc[c] = "done" /\ result[c] = "error"})

\* The counters of a stats answer are still current when GetStats, having
\* waited for mu inside stats.mu, reads "connected": the whole answer belongs
\* to one instant, however long Disconnect holds mu (rabbitmq.go, GetStats
\* against updateStats).
StatsFromOneInstant ==
    \A h \in Probes : probePc[h] = "counted" => seen[h] = counters

\* An open connection is either being set up by Connect or is the one a
\* connected adapter holds.  Disconnect returns at once when the flag is down,
\* so any other open connection would stay open until the process dies
\* (rabbitmq.go, Connect's error paths, Disconnect, handleConnectionErrors).
NoOrphanConnection ==
    \A c \in Conns :
        connState[c] = "open" => c = dialled \/ (connected /\ c = conn)

\* Once Disconnect has returned nothing more is published, not even by a
\* request that copied the channel before Disconnect closed it (rabbitmq.go,
\* Disconnect against Publish's use of the channel outside the lock).
SilentWhenDisconnected ==
    [][(mainPc = "idle" /\ ~connected) => handed' = handed]_vars

\* What the caller of Publish is promised: see PublishContract.
Outcome(c) ==
    IF callPc[c] = "idle" THEN "idle"
    ELSE IF callPc[c] = "done" THEN result[c] ELSE "pending"

Contract == INSTANCE PublishContract WITH outcome <- [c \in Calls |-> Outcome(c)]

PublishContractHolds == Contract!Spec

\* No request waits for ever on the locks: a publish that was called returns,
\* and so do the health and stats requests, which take mu inside stats.mu,
\* and the owner's Connect and Disconnect (rabbitmq.go, every use of mu and
\* stats.mu).
EverybodyReturns ==
    /\ \A c \in Calls : callPc[c] = "called" ~> callPc[c] = "done"
    /\ \A h \in Probes : probePc[h] # "idle" ~> probePc[h] = "done"
    /\ mainPc # "idle" ~> mainPc = "idle"

\* A loss on a connection the watcher has registered with takes the flag down
\* (rabbitmq.go, handleConnectionErrors).
WatchedLossIsNoticed ==
    \A w \in Conns :
        (watchPc[w] = "watching" /\ connState[watched[w]] = "lost") ~> ~connected

\* A healthy adapter has a channel to publish on: "Check if service and broker
\* are healthy" (handlers.go:38).
HealthyCanPublish ==
    IsHealthy /\ CanRLock(mu) => chanState[channel] = "open"
=============================================================================
