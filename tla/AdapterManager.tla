---------------------------- MODULE AdapterManager ----------------------------
(***************************************************************************)
(* The adapters of an engine (class AdapterManager): they are added and    *)
(* removed by name, their tools are called and their resources read through *)
(* a cache, while connections break and come back.  Every await is a point *)
(* where the other operations and timers run.                              *)
(***************************************************************************)
EXTENDS ManagedAdapter, FiniteSets, Sequences

CONSTANTS
  Names,         \* of adapters
  Instances,     \* ManagedAdapter objects that addAdapter creates
  None,
  Callers,       \* of tools and resources
  Removers,      \* callers of removeAdapter and shutdown
  MaxChecks      \* bound on the health checks of one adapter that overlap

ASSUME NoneAssumption   == None \notin Instances \cup Names
ASSUME ChecksAssumption == MaxChecks \in Nat

VARIABLES
  adapter,       \* per instance, [name, removed, is]: its name once it was
                 \* created, whether it was removed, and its record
  adapters,      \* the Map: per name the instance stored, or None
  toolIndex,     \* names with tools in the ToolRouter
  cache,         \* per name the cached resource: [from, late] (from = None: nothing)
  call,          \* per caller: [on, kind, late]: the call under way
  removal        \* per remover: [names, on, clear]: the names left, the
                 \* instance being disconnected, and whether it is shutdown

vars == <<adapter, adapters, toolIndex, cache, call, removal>>

NoCall    == [on |-> None, kind |-> "none", late |-> FALSE]
NoRemoval == [names |-> <<>>, on |-> None, clear |-> FALSE]
Uncached  == [from |-> None, late |-> FALSE]

Init ==
  /\ adapter = [i \in Instances |-> [name |-> None, removed |-> FALSE, is |-> NewAdapter]]
  /\ adapters = [n \in Names |-> None]
  /\ toolIndex = {}
  /\ cache = [n \in Names |-> Uncached]
  /\ call = [c \in Callers |-> NoCall]
  /\ removal = [c \in Removers |-> NoRemoval]

Set(i, a) == adapter' = [adapter EXCEPT ![i].is = a]
Is(i)     == adapter[i].is
NameOf(i) == adapter[i].name

(***************************************************************************)
(* addAdapter and reconnection                                             *)
(***************************************************************************)

(* The name is looked up before connect is awaited. *)
AddAdapter(i, n) ==
  /\ NameOf(i) = None
  /\ adapters[n] = None
  /\ adapter' = [adapter EXCEPT ![i].name = n, ![i].is = Connect(@)]
  /\ UNCHANGED <<adapters, toolIndex, cache, call, removal>>

CreatesClient(i) ==
  /\ Is(i).connect # "none" /\ ~Is(i).listing
  /\ Set(i, ClientCreated(Is(i)))
  /\ UNCHANGED <<adapters, toolIndex, cache, call, removal>>

(* What was registered under the name is replaced; every adapter has tools.  *)
Discovers(i) == toolIndex' = toolIndex \cup {NameOf(i)}

(* A first connection is stored; the map is not looked at again.             *)
ConnectSucceeds(i) ==
  /\ Is(i).listing
  /\ Set(i, Connected(Is(i)))
  /\ Discovers(i)
  /\ adapters' = IF Is(i).connect = "first" THEN [adapters EXCEPT ![NameOf(i)] = i] ELSE adapters
  /\ UNCHANGED <<cache, call, removal>>

ConnectFails(i) ==
  /\ Is(i).connect # "none"
  /\ Set(i, ConnectFailed(Is(i)))
  /\ UNCHANGED <<adapters, toolIndex, cache, call, removal>>

(* A tool has a reserved name: those before it, if any, stay registered. *)
DiscoveryFails(i) ==
  /\ Is(i).listing
  /\ Set(i, DiscoveryFailed(Is(i)))
  /\ Discovers(i) \/ toolIndex' = toolIndex \ {NameOf(i)}
  /\ UNCHANGED <<adapters, cache, call, removal>>

ReconnectTimerFires(i) ==
  /\ Is(i).timeouts > 0
  /\ Set(i, AttemptReconnect(Is(i)))
  /\ UNCHANGED <<adapters, toolIndex, cache, call, removal>>

HealthCheckTimerFires(i) ==
  /\ Is(i).intervals > 0
  /\ Is(i).state = "connected" /\ Is(i).client
  /\ Is(i).checks < MaxChecks
  /\ Set(i, HealthCheck(Is(i)))
  /\ UNCHANGED <<adapters, toolIndex, cache, call, removal>>

HealthCheckEnds(i) ==
  /\ Is(i).checks > 0
  /\ Set(i, HealthCheckAnswered(Is(i))) \/ Set(i, HealthCheckFailed(Is(i)))
  /\ UNCHANGED <<adapters, toolIndex, cache, call, removal>>

CooldownTimerFires(i) ==
  /\ Is(i).breaker = "unhealthy"
  /\ Set(i, CooldownEnds(Is(i)))
  /\ UNCHANGED <<adapters, toolIndex, cache, call, removal>>

(***************************************************************************)
(* removeAdapter and shutdown                                              *)
(***************************************************************************)

(* mutant of Removing: the cache is kept *)
RemovingUncleared(c, names, clear) ==
  LET n == Head(names)
      i == adapters[n]
  IN  /\ i # None
      /\ toolIndex' = toolIndex \ {n}
      /\ adapter' = [adapter EXCEPT ![i].is = BeginDisconnect(@)]
      /\ call' = [d \in Callers |-> IF call[d].on = i THEN [call[d] EXCEPT !.late = TRUE]
                                                      ELSE call[d]]
      /\ removal' = [removal EXCEPT ![c] = [names |-> names, on |-> i, clear |-> clear]]
      /\ UNCHANGED <<adapters, cache>>

(* Up to the await of disconnect; a name that is not stored is passed over.  *)
Removing(c, names, clear) ==
  LET n == Head(names)
      i == adapters[n]
  IN  /\ i # None
      /\ toolIndex' = toolIndex \ {n}
      /\ cache' = [cache EXCEPT ![n] = Uncached]
      /\ adapter' = [adapter EXCEPT ![i].is = BeginDisconnect(@)]
      /\ call' = [d \in Callers |-> IF call[d].on = i THEN [call[d] EXCEPT !.late = TRUE]
                                                      ELSE call[d]]
      /\ removal' = [removal EXCEPT ![c] = [names |-> names, on |-> i, clear |-> clear]]
      /\ UNCHANGED adapters

RemoveAdapter(c, n) == removal[c] = NoRemoval /\ Removing(c, <<n>>, FALSE)

Stored == {n \in Names : adapters[n] # None}

Orders(S) == {s \in [1 .. Cardinality(S) -> S] : \A j, k \in DOMAIN s : s[j] = s[k] => j = k}

(* The engine shuts down once; here it may again, but not while it does.     *)
Shutdown(c) ==
  /\ removal[c] = NoRemoval
  /\ \A d \in Removers : ~removal[d].clear
  /\ Stored # {}
  /\ \E names \in Orders(Stored) : Removing(c, names, TRUE)

(* The client is closed, and the name is deleted from the map. *)
Removed(c) ==
  LET r == removal[c]
  IN  /\ r.on # None
      /\ adapter' = [adapter EXCEPT ![r.on].is = EndDisconnect(@), ![r.on].removed = TRUE]
      /\ adapters' = [adapters EXCEPT ![Head(r.names)] = None]
      /\ removal' = [removal EXCEPT ![c] = IF Len(r.names) = 1 THEN NoRemoval
                                             ELSE [r EXCEPT !.names = Tail(@), !.on = None]]
      /\ cache' = IF r.clear /\ Len(r.names) = 1 THEN [n \in Names |-> Uncached] ELSE cache
      /\ UNCHANGED <<toolIndex, call>>

(* shutdown goes on with the next name. *)
ShutdownNext(c) ==
  LET r == removal[c]
  IN  /\ r.on = None /\ r.names # <<>>
      /\ \/ Removing(c, r.names, r.clear)
         \/ /\ adapters[Head(r.names)] = None
            /\ removal' = [removal EXCEPT ![c] = IF Len(r.names) = 1 THEN NoRemoval
                                                   ELSE [r EXCEPT !.names = Tail(@)]]
            /\ cache' = IF Len(r.names) = 1 THEN [n \in Names |-> Uncached] ELSE cache
            /\ UNCHANGED <<adapter, adapters, toolIndex, call>>

(***************************************************************************)
(* callTool and readResource                                               *)
(***************************************************************************)

Reachable(i) == i # None /\ Is(i).state = "connected" /\ IsAvailable(Is(i))

Begin(c, n, kind) ==
  /\ call[c] = NoCall
  /\ Reachable(adapters[n])
  /\ call' = [call EXCEPT ![c] = [on |-> adapters[n], kind |-> kind,
                                  late |-> \E d \in Removers : removal[d].on = adapters[n]]]
  /\ UNCHANGED <<adapter, adapters, toolIndex, cache, removal>>

CallTool(c, n) == n \in toolIndex /\ Begin(c, n, "tool")

(* A resource that is not cached is read from the adapter. *)
ReadResource(c, n) == cache[n] = Uncached /\ Begin(c, n, "resource")

CacheExpires(n) ==
  /\ cache[n] # Uncached
  /\ cache' = [cache EXCEPT ![n] = Uncached]
  /\ UNCHANGED <<adapter, adapters, toolIndex, call, removal>>

Ends(c, a) ==
  /\ call[c] # NoCall
  /\ Set(call[c].on, a)
  /\ call' = [call EXCEPT ![c] = NoCall]
  /\ UNCHANGED <<adapters, toolIndex, removal>>

(* The answer of a read is cached, whatever became of the adapter. *)
Answered(c) ==
  /\ Ends(c, RecordSuccess(Is(call[c].on)))
  /\ cache' = IF call[c].kind = "resource"
                THEN [cache EXCEPT ![NameOf(call[c].on)] = [from |-> call[c].on, late |-> call[c].late]]
                ELSE cache

(* A read without content counts as a success, then as a failure. *)
AnsweredEmpty(c) ==
  /\ call[c].kind = "resource"
  /\ Ends(c, RecordFailure(RecordSuccess(Is(call[c].on))))
  /\ UNCHANGED cache

Throws(c) == Ends(c, RecordFailure(Is(call[c].on))) /\ UNCHANGED cache

(* A time-out counts against a tool call only. *)
TimesOut(c) ==
  /\ Ends(c, IF call[c].kind = "tool" THEN RecordFailure(Is(call[c].on)) ELSE Is(call[c].on))
  /\ UNCHANGED cache

(***************************************************************************)
(* The specification                                                       *)
(***************************************************************************)

Lives(i) ==
  \/ \E n \in Names : AddAdapter(i, n)
  \/ CreatesClient(i) \/ ConnectSucceeds(i) \/ ConnectFails(i) \/ DiscoveryFails(i)
  \/ ReconnectTimerFires(i) \/ HealthCheckTimerFires(i) \/ HealthCheckEnds(i)
  \/ CooldownTimerFires(i)

Removes(c) ==
  \/ \E n \in Names : RemoveAdapter(c, n)
  \/ Shutdown(c) \/ Removed(c) \/ ShutdownNext(c)

Calls(c) ==
  \/ \E n \in Names : CallTool(c, n) \/ ReadResource(c, n)
  \/ Answered(c) \/ AnsweredEmpty(c) \/ Throws(c) \/ TimesOut(c)

Next == \/ \E i \in Instances : Lives(i)
        \/ \E c \in Removers : Removes(c)
        \/ \E c \in Callers : Calls(c)
        \/ \E n \in Names : CacheExpires(n)

Spec == Init /\ [][Next]_vars
=============================================================================
