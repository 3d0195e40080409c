----------------------------- MODULE WatchCache -----------------------------
(***************************************************************************)
(* The cache that the etcd3 and the kubernetes client keep of the cluster's *)
(* keys: one thread lists them and then follows a watch (KVCache,           *)
(* ObjectCache), while the HA loop enters in the cache what it has written  *)
(* itself, reads the cache instead of the store, and cuts the watch when it *)
(* turns to another etcd server.                                            *)
(*                                                                          *)
(* A key holds the name of the member that wrote it. One key is enough: the *)
(* keys of the cache do not touch each other. The server that answers the   *)
(* list may be behind (serializable reads), and so may the watch.           *)
(***************************************************************************)
EXTENDS Naturals, Sequences

CONSTANTS
    Client,      \* "etcd3" or "kubernetes"
    MaxWrites,   \* writes of the key
    MaxSwitches, \* how often the client turns to another server
    MaxBreaks    \* how often the watch breaks by itself

ASSUME WatchCacheAssumption ==
    /\ Client \subseteq {"etcd3", "kubernetes"}
    /\ MaxWrites \in Nat /\ MaxSwitches \in Nat /\ MaxBreaks \in Nat

VARIABLES
    client,   \* the client in use
    log,      \* what the key held after each write; its index is the revision
    own,      \* the revision of an own write that is not yet in the cache, or 0
    cache,    \* the revision of the cached entry, or 0 for none
    ready,    \* _is_ready: the HA loop may read the cache
    phase,    \* where the thread of the cache is
    listed,   \* the revision of the list
    pos,      \* the last revision that the watch has delivered
    response, \* _response of KVCache: None, False (killed) or the open watch
    server,   \* the server that requests go to (_base_uri)
    watched,  \* the server that the watch is connected to
    killing,  \* the HA loop has turned to another server, the watch is to be cut
    breaks    \* how often the watch broke

watchCacheVars == <<client, log, own, cache, ready, phase, listed, pos,
                    response, server, watched, killing, breaks>>

Values == {"self", "other", "deleted"}
Revision == Len(log)

(* The state of the key as of revision r, as the revision of its entry: 0 if
   the key is not there. *)
EntryAt(r) == IF r = 0 \/ log[r] = "deleted" THEN 0 ELSE r

WatchCacheTypeOK ==
    /\ client \in Client
    /\ log \in Seq(Values) /\ Revision <= MaxWrites
    /\ own \in 0..Revision
    /\ cache \in 0..Revision
    /\ ready \in BOOLEAN
    /\ phase \in {"list", "fill", "watch", "connect", "adopt", "stream", "down"}
    /\ listed \in 0..Revision /\ pos \in 0..Revision
    /\ response \in {"None", "False", "open"}
    /\ server \in 0..MaxSwitches /\ watched \in 0..server
    /\ killing \in BOOLEAN
    /\ breaks \in 0..MaxBreaks
    /\ cache # 0 => log[cache] # "deleted"

WatchCacheInit ==
    /\ client \in Client
    /\ log = <<>>
    /\ own = 0
    /\ cache = 0
    /\ ready = FALSE
    /\ phase = "list"
    /\ listed = 0
    /\ pos = 0
    /\ response = "None"
    /\ server = 0
    /\ watched = 0
    /\ killing = FALSE
    /\ breaks = 0

-----------------------------------------------------------------------------
(* The entries of the cache. *)

(* KVCache.set, ObjectCache.set: nothing is replaced by something older. *)
EnterPut(entry, r) == IF entry = 0 \/ entry < r THEN r ELSE entry

(* KVCache.delete, ObjectCache.delete *)
EnterDelete(entry, r) == IF entry < r THEN 0 ELSE entry

(* Mutant: the order of the writes is taken for the order of the events. *)
EnterLast(entry, r) == IF log[r] = "deleted" THEN 0 ELSE r

(* An entry after the write of revision r is known. *)
Enter(entry, r) == IF log[r] = "deleted" THEN EnterDelete(entry, r) ELSE EnterPut(entry, r)

-----------------------------------------------------------------------------
(* The store and the HA loop. *)

Write(value) ==
    /\ Revision < MaxWrites
    /\ value = "deleted" => EntryAt(Revision) # 0
    /\ log' = Append(log, value)

(* Somebody else writes or deletes the key. *)
OtherWrites ==
    /\ \E value \in {"other", "deleted"} : Write(value)
    /\ UNCHANGED <<client, own, cache, ready, phase, listed, pos, response,
                   server, watched, killing, breaks>>

(* The HA loop writes or deletes the key, and when it has the answer it
   enters the result in the cache (call_rpc, _patch_or_create; the client of
   kubernetes only enters what it has written). *)
OwnWrite ==
    /\ own = 0
    /\ ~killing
    /\ \E value \in {"self", "deleted"} :
          /\ Write(value)
          /\ client = "kubernetes" => value = "self"
    /\ own' = Len(log')
    /\ UNCHANGED <<client, cache, ready, phase, listed, pos, response, server,
                   watched, killing, breaks>>

OwnWriteCached ==
    /\ own # 0
    /\ cache' = Enter(cache, own)
    /\ own' = 0
    /\ UNCHANGED <<client, log, ready, phase, listed, pos, response, server,
                   watched, killing, breaks>>

(* set_base_uri: the next requests go to another server, and the watch on the
   old one is cut: a stream that is open is closed, and one that is being
   opened is marked so that it is closed as soon as it is there. *)
SetBaseUri ==
    /\ client = "etcd3"
    /\ own = 0
    /\ ~killing
    /\ server < MaxSwitches
    /\ server' = server + 1
    /\ killing' = TRUE
    /\ UNCHANGED <<client, log, own, cache, ready, phase, listed, pos, response,
                   watched, breaks>>

(* Mutant: only an open stream is cut. *)
KillOpenStream ==
    /\ killing
    /\ killing' = FALSE
    /\ IF response = "open"
       THEN phase' = "down" /\ UNCHANGED response
       ELSE UNCHANGED <<phase, response>>
    /\ UNCHANGED <<client, log, own, cache, ready, listed, pos, server, watched, breaks>>

KillStream ==
    /\ killing
    /\ killing' = FALSE
    /\ IF response = "open"
       THEN phase' = "down" /\ UNCHANGED response
       ELSE response' = "False" /\ UNCHANGED phase
    /\ UNCHANGED <<client, log, own, cache, ready, listed, pos, server, watched, breaks>>

-----------------------------------------------------------------------------
(* The thread of the cache. *)

(* The keys are listed: by etcd3 from a server that may be behind. *)
List ==
    /\ phase = "list"
    /\ listed' \in IF client = "etcd3" THEN 0..Revision ELSE {Revision}
    /\ phase' = "fill"
    /\ UNCHANGED <<client, log, own, cache, ready, pos, response, server,
                   watched, killing, breaks>>

(* The list replaces the cache, which may be read from now on. The watch of
   etcd3 starts with the revision of the list, that of kubernetes after it. *)
Fill ==
    /\ phase = "fill"
    /\ cache' = EntryAt(listed)
    /\ ready' = TRUE
    /\ pos' = IF client = "etcd3" /\ listed > 0 THEN listed - 1 ELSE listed
    /\ phase' = "watch"
    /\ UNCHANGED <<client, log, own, listed, response, server, watched,
                   killing, breaks>>

(* _do_watch: forget an earlier kill, *)
StartWatch ==
    /\ phase = "watch"
    /\ response' = "None"
    /\ phase' = "connect"
    /\ UNCHANGED <<client, log, own, cache, ready, listed, pos, server,
                   watched, killing, breaks>>

(* connect, *)
Connect ==
    /\ phase = "connect"
    /\ watched' = server
    /\ phase' = "adopt"
    /\ UNCHANGED <<client, log, own, cache, ready, listed, pos, response,
                   server, killing, breaks>>

(* and keep the stream unless it was killed meanwhile. *)
Adopt ==
    /\ phase = "adopt"
    /\ IF response = "None"
       THEN response' = "open" /\ phase' = "stream"
       ELSE phase' = "down" /\ UNCHANGED response
    /\ UNCHANGED <<client, log, own, cache, ready, listed, pos, server,
                   watched, killing, breaks>>

(* The next event is entered in the cache (_process_event). *)
ProcessEvent ==
    /\ phase = "stream"
    /\ pos < Revision
    /\ pos' = pos + 1
    /\ cache' = Enter(cache, pos + 1)
    /\ UNCHANGED <<client, log, own, ready, phase, listed, response, server,
                   watched, killing, breaks>>

(* The watch cannot be opened, it breaks, or its revision is gone (410). *)
WatchBreaks ==
    /\ phase \in {"connect", "stream"}
    /\ breaks < MaxBreaks
    /\ breaks' = breaks + 1
    /\ phase' = "down"
    /\ UNCHANGED <<client, log, own, cache, ready, listed, pos, response,
                   server, watched, killing>>

(* Mutant: the next watch goes on where the last one ended. *)
ResumeWatch ==
    /\ phase = "down"
    /\ phase' = "watch"
    /\ pos' = Revision
    /\ UNCHANGED <<client, log, own, cache, ready, listed, response, server,
                   watched, killing, breaks>>

(* The cache is not to be read until it is filled again. *)
FinishResponse ==
    /\ phase = "down"
    /\ ready' = FALSE
    /\ response' = "None"
    /\ phase' = "list"
    /\ UNCHANGED <<client, log, own, cache, listed, pos, server, watched,
                   killing, breaks>>

CacheThread ==
    \/ List \/ Fill \/ StartWatch \/ Connect \/ Adopt \/ ProcessEvent
    \/ WatchBreaks \/ FinishResponse

HaLoop == OwnWrite \/ OwnWriteCached \/ SetBaseUri \/ KillStream

WatchCacheNext == CacheThread \/ HaLoop \/ OtherWrites

WatchCacheSpec == WatchCacheInit /\ [][WatchCacheNext]_watchCacheVars

(* Both threads go on; that the client writes, turns to another server, or
   loses the watch is not assumed. *)
WatchCacheFairSpec ==
    /\ WatchCacheSpec
    /\ WF_watchCacheVars(CacheThread)
    /\ WF_watchCacheVars(OwnWriteCached)
    /\ WF_watchCacheVars(KillStream)

-----------------------------------------------------------------------------
(* Properties. *)

(* The thread never follows a watch on a server the client has turned away
   from: a kill that falls between the steps of opening the watch is not
   lost, and one that comes too early is not needed. *)
NoStreamFromOldServer ==
    phase = "stream" /\ watched # server => killing

(* An entry is not replaced by an older one while the cache may be read,
   though the answers to own writes and the events of the watch arrive in
   any order. *)
NothingOlderIsEntered ==
    [][ready /\ ready' /\ phase # "fill" /\ cache # 0 /\ cache' # 0
         => cache' >= cache]_watchCacheVars

(* Once the key is not written any more, the cache comes to show it, also
   after a deletion that overtook the event of an earlier write, and after a
   list from a server that was behind. The one entry that can outlive its key
   is an own one: its answer came after the watch had delivered the deletion. *)
OutlivesItsKey == EntryAt(Revision) = 0 /\ cache # 0 /\ log[cache] = "self"

CacheConverges ==
    <>[](ready /\ (cache = EntryAt(Revision) \/ OutlivesItsKey))
=============================================================================
