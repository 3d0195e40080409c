---------------------------- MODULE AccessProofs ----------------------------
(***************************************************************************)
(* Proofs about parts of one process. Its access to the DCS: the cache of  *)
(* the cluster's keys (WatchCache) never follows a stream from a server    *)
(* that the client has turned away from and enters nothing older than it   *)
(* has, and a request (DcsClient) ends in bounded time, for any number of  *)
(* writes, servers, changes and lost answers. Its replication slots        *)
(* (Slots): what it believes of them is true or about to be loaded anew.   *)
(* Its background tasks (AsyncExecutor): when no request is forced, so     *)
(* that nobody calls cancel, they do not overlap and a cancelled critical  *)
(* one does nothing.                                                       *)
(***************************************************************************)
EXTENDS WatchCache, DcsClient, Slots, AsyncExecutor, FiniteSetTheorems, TLAPS

-----------------------------------------------------------------------------
(* The cache. *)

LEMMA CacheTypesKept ==
    ASSUME WatchCacheTypeOK, WatchCacheNext
    PROVE  WatchCacheTypeOK'
<1>. USE WatchCacheAssumption DEF WatchCacheTypeOK, Revision
<1>1. CASE OtherWrites \/ OwnWrite
  <2>1. PICK value \in Values : Write(value)
    BY <1>1 DEF OtherWrites, OwnWrite, Values
  <2>2. log' \in Seq(Values) /\ Len(log') = Len(log) + 1 /\ Len(log') <= MaxWrites
    BY <2>1 DEF Write
  <2>3. \A r \in 1..Len(log) : log'[r] = log[r]
    BY <2>1 DEF Write
  <2>. QED
    BY <1>1, <2>2, <2>3, SMTT(30) DEF OtherWrites, OwnWrite
<1>2. CASE OwnWriteCached
  <2>1. log[own] \in Values
    BY <1>2 DEF OwnWriteCached
  <2>. QED
    BY <1>2, <2>1 DEF OwnWriteCached, Enter, EnterPut, EnterDelete
<1>3. CASE SetBaseUri
  BY <1>3 DEF SetBaseUri
<1>4. CASE KillStream
  BY <1>4 DEF KillStream
<1>5. CASE List
  BY <1>5 DEF List
<1>6. CASE Fill
  BY <1>6 DEF Fill, EntryAt
<1>7. CASE StartWatch \/ Connect \/ Adopt \/ FinishResponse
  <2>1. CASE StartWatch
    BY <2>1 DEF StartWatch
  <2>2. CASE Connect
    BY <2>2 DEF Connect
  <2>3. CASE Adopt
    BY <2>3 DEF Adopt
  <2>4. CASE FinishResponse
    BY <2>4 DEF FinishResponse
  <2>. QED
    BY <1>7, <2>1, <2>2, <2>3, <2>4
<1>8. CASE ProcessEvent
  <2>1. pos + 1 \in 1..Len(log)
    BY <1>8 DEF ProcessEvent
  <2>2. Enter(cache, pos + 1) \in 0..Len(log)
    BY <2>1 DEF Enter, EnterPut, EnterDelete
  <2>3. Enter(cache, pos + 1) # 0 => log[Enter(cache, pos + 1)] # "deleted"
    BY <2>1 DEF Enter, EnterPut, EnterDelete
  <2>. HIDE DEF Enter
  <2>. QED
    BY <1>8, <2>1, <2>2, <2>3 DEF ProcessEvent
<1>9. CASE WatchBreaks
  BY <1>9 DEF WatchBreaks
<1>. QED
  BY <1>1, <1>2, <1>3, <1>4, <1>5, <1>6, <1>7, <1>8, <1>9
  DEF WatchCacheNext, CacheThread, HaLoop

(* The stream that is followed is the one that KillStream cuts, and one that is
   being opened on a server the client has turned away from will be cut or is
   marked. *)
StreamInv ==
    /\ phase = "stream" => response = "open"
    /\ phase \notin {"stream", "down"} => response # "open"
    /\ phase \in {"adopt", "stream"} /\ watched # server => killing \/ response = "False"

LEMMA StreamKept ==
    ASSUME WatchCacheTypeOK, StreamInv, WatchCacheNext
    PROVE  StreamInv'
<1>. USE DEF WatchCacheTypeOK, StreamInv
<1>1. CASE OtherWrites \/ OwnWrite \/ OwnWriteCached \/ SetBaseUri
  BY <1>1 DEF OtherWrites, OwnWrite, OwnWriteCached, SetBaseUri
<1>2. CASE KillStream
  BY <1>2 DEF KillStream
<1>3. CASE List \/ Fill \/ StartWatch \/ Connect
  BY <1>3 DEF List, Fill, StartWatch, Connect
<1>4. CASE Adopt
  BY <1>4 DEF Adopt
<1>5. CASE ProcessEvent \/ WatchBreaks \/ FinishResponse
  BY <1>5 DEF ProcessEvent, WatchBreaks, FinishResponse
<1>. QED
  BY <1>1, <1>2, <1>3, <1>4, <1>5 DEF WatchCacheNext, CacheThread, HaLoop

(* The variables of the cache keep their types, and the thread that follows the
   watch and the one that cuts it agree on the stream, in every execution of
   WatchCache. *)
THEOREM WatchCacheInductive == WatchCacheSpec => [](WatchCacheTypeOK /\ StreamInv)
<1>1. WatchCacheInit => WatchCacheTypeOK /\ StreamInv
  <2>1. WatchCacheInit => log \in Seq(Values) /\ Len(log) = 0
    BY DEF WatchCacheInit
  <2>2. WatchCacheInit => WatchCacheTypeOK
    <3>. SUFFICES ASSUME WatchCacheInit PROVE WatchCacheTypeOK
      OBVIOUS
    <3>1. log \in Seq(Values) /\ Len(log) = 0
      BY <2>1
    <3>2. own = 0 /\ cache = 0 /\ listed = 0 /\ pos = 0 /\ server = 0 /\ watched = 0 /\ breaks = 0
      BY DEF WatchCacheInit
    <3>3. client \in Client /\ ready = FALSE /\ phase = "list" /\ response = "None" /\ killing = FALSE
      BY DEF WatchCacheInit
    <3>4. log \in Seq(Values) /\ Revision = 0 /\ Revision <= MaxWrites
      BY <3>1, WatchCacheAssumption DEF Revision
    <3>5. {own, cache, listed, pos} \subseteq 0..Revision
      BY <3>2, <3>4
    <3>6. server \in 0..MaxSwitches /\ watched \in 0..server /\ breaks \in 0..MaxBreaks
      BY <3>2, WatchCacheAssumption
    <3>. QED
      BY <3>2, <3>3, <3>4, <3>5, <3>6 DEF WatchCacheTypeOK
  <2>3. WatchCacheInit => StreamInv
    BY DEF WatchCacheInit, StreamInv
  <2>. QED
    BY <2>2, <2>3
<1>2. WatchCacheTypeOK /\ StreamInv /\ [WatchCacheNext]_watchCacheVars
         => (WatchCacheTypeOK /\ StreamInv)'
  <2>1. WatchCacheTypeOK /\ StreamInv /\ WatchCacheNext => (WatchCacheTypeOK /\ StreamInv)'
    BY CacheTypesKept, StreamKept
  <2>2. WatchCacheTypeOK /\ StreamInv /\ UNCHANGED watchCacheVars
           => (WatchCacheTypeOK /\ StreamInv)'
    BY DEF WatchCacheTypeOK, StreamInv, Revision, watchCacheVars
  <2>. QED
    BY <2>1, <2>2
<1>. QED
  BY <1>1, <1>2, PTL DEF WatchCacheSpec

(* The thread of the cache never follows the stream of a server that the
   client has turned away from, but until it is cut: however the steps of
   set_base_uri and of the opening of a watch come between each other, and
   however often the client turns away or the watch breaks. *)
THEOREM OldStreamsAreCut == WatchCacheSpec => []NoStreamFromOldServer
<1>1. StreamInv => NoStreamFromOldServer
  BY DEF StreamInv, NoStreamFromOldServer
<1>. QED
  BY <1>1, WatchCacheInductive, PTL

(* Whatever the order in which the answers to own writes and the events of the
   watch arrive: no entry is replaced by an older one. *)
THEOREM EntriesGetNewer == WatchCacheSpec => NothingOlderIsEntered
<1>1. ASSUME WatchCacheTypeOK, WatchCacheNext, phase # "fill", cache # 0, cache' # 0
      PROVE  cache' >= cache
  <2>1. CASE OwnWriteCached
    BY <1>1, <2>1 DEF WatchCacheTypeOK, Revision, OwnWriteCached, Enter, EnterPut, EnterDelete
  <2>2. CASE ProcessEvent
    BY <1>1, <2>2 DEF WatchCacheTypeOK, Revision, ProcessEvent, Enter, EnterPut, EnterDelete
  <2>3. CASE ~OwnWriteCached /\ ~ProcessEvent
    <3>1. cache' = cache
      BY <1>1, <2>3 DEF WatchCacheNext, CacheThread, HaLoop, OtherWrites, OwnWrite, SetBaseUri,
         KillStream, List, Fill, StartWatch, Connect, Adopt, WatchBreaks, FinishResponse
    <3>. QED
      BY <1>1, <3>1 DEF WatchCacheTypeOK, Revision
  <2>. QED
    BY <2>1, <2>2, <2>3
<1>2. WatchCacheTypeOK /\ [WatchCacheNext]_watchCacheVars
         => [ready /\ ready' /\ phase # "fill" /\ cache # 0 /\ cache' # 0
               => cache' >= cache]_watchCacheVars
  BY <1>1
<1>. QED
  BY <1>2, WatchCacheInductive, PTL DEF WatchCacheSpec, NothingOlderIsEntered

-----------------------------------------------------------------------------
(* Servers and their shares of the time. *)

LEMMA ServerSets ==
    /\ RetryTimeout \in Nat /\ RetryTimeout > 0
    /\ \A S \in SUBSET Servers :
          /\ IsFiniteSet(S) /\ Cardinality(S) \in 0..Cardinality(Servers)
          /\ Cardinality(S) <= RetryTimeout
          /\ \A T \in SUBSET S : Cardinality(T) <= Cardinality(S)
<1>1. IsFiniteSet(Servers) /\ Cardinality(Servers) \in Nat
  BY DcsClientAssumption, FS_CardinalityType
<1>2. \A S \in SUBSET Servers :
         /\ IsFiniteSet(S) /\ Cardinality(S) \in Nat
         /\ Cardinality(S) <= Cardinality(Servers)
         /\ \A T \in SUBSET S : Cardinality(T) <= Cardinality(S)
  BY <1>1, FS_Subset, FS_CardinalityType
<1>3. Cardinality(Servers) # 0
  BY <1>1, FS_EmptySet, DcsClientAssumption
<1>. QED
  BY <1>1, <1>2, <1>3, DcsClientAssumption

LEMMA Division ==
    ASSUME NEW t \in Nat, NEW n \in Nat, n > 0
    PROVE  t \div n \in 0..t /\ (t \div n) * n <= t
OBVIOUS

LEMMA Products ==
    ASSUME NEW s \in Nat, NEW a \in Nat, NEW b \in Nat, a <= b
    PROVE  /\ s * a \in Nat /\ s * b \in Nat /\ s * a <= s * b
           /\ a + 1 = b => s * a + s = s * b
           /\ b > 0 => s <= s * b
OBVIOUS

LEMMA MaxWithZero ==
    ASSUME NEW t \in Int
    PROVE  Max({0, t}) = IF t > 0 THEN t ELSE 0
BY DEF Max

(* The shares of the servers add up to at most the time there is. *)
LEMMA SharesFit ==
    ASSUME NEW n \in Nat, NEW t \in Int
    PROVE  LET plan == CalculateTimeouts(n, t)
           IN  /\ plan.nodes \in 0..n /\ plan.share \in Nat
               /\ plan.nodes = 0 => plan.share = 0
               /\ plan.nodes # 0 => /\ t > 0 /\ plan.share <= t
                                    /\ plan.share * plan.nodes <= t
               /\ t >= n => plan.nodes = n
<1>. DEFINE nodes == IF t >= n THEN n ELSE Max({0, t})
            share == IF nodes = 0 THEN 0 ELSE t \div nodes
<1>1. CalculateTimeouts(n, t) = [nodes |-> nodes, share |-> share]
  BY DEF CalculateTimeouts
<1>2. nodes \in 0..n /\ (nodes # 0 => t \in Nat /\ t > 0) /\ (t >= n => nodes = n)
  BY MaxWithZero
<1>3. nodes # 0 => share \in 0..t /\ share * nodes <= t
  BY <1>2, Division
<1>4. nodes = 0 => share = 0
  OBVIOUS
<1>. HIDE DEF nodes, share
<1>. QED
  BY <1>1, <1>2, <1>3, <1>4

LEMMA ShareFits ==
    ASSUME NEW S \in SUBSET Servers, NEW T \in SUBSET S
    PROVE  Share(S) \in 0..RetryTimeout /\ Share(S) * Cardinality(T) \in 0..RetryTimeout
<1>. DEFINE plan == CalculateTimeouts(Cardinality(S), RetryTimeout)
<1>1. Cardinality(S) \in Nat /\ RetryTimeout \in Nat /\ RetryTimeout >= Cardinality(S)
  BY ServerSets
<1>2. /\ plan.nodes = Cardinality(S) /\ plan.share \in Nat
      /\ plan.nodes = 0 => plan.share = 0
      /\ plan.nodes # 0 => plan.share <= RetryTimeout /\ plan.share * plan.nodes <= RetryTimeout
  BY <1>1, SharesFit
<1>3. Share(S) = plan.share
  BY DEF Share
<1>4. Cardinality(T) \in Nat /\ Cardinality(T) <= Cardinality(S)
  BY ServerSets
<1>. HIDE DEF plan
<1>5. Share(S) * Cardinality(T) \in Nat /\ Share(S) * Cardinality(T) <= Share(S) * Cardinality(S)
  BY <1>1, <1>2, <1>3, <1>4, Products
<1>6. Share(S) * Cardinality(S) <= RetryTimeout
  BY <1>1, <1>2, <1>3
<1>. QED
  BY <1>1, <1>2, <1>3, <1>4, <1>5, <1>6

LEMMA CostsFit ==
    ASSUME DcsClientTypeOK
    PROVE  /\ \A S \in SUBSET Servers : Costs(S) \subseteq 0..RetryTimeout
           /\ LoadCosts \subseteq 0..RetryTimeout
<1>1. ASSUME NEW S \in SUBSET Servers PROVE Costs(S) \subseteq 0..RetryTimeout
  BY ShareFits, ServerSets DEF Costs
<1>. QED
  BY <1>1, ServerSets DEF DcsClientTypeOK, LoadCosts

LEMMA TakesTime ==
    ASSUME DcsClientTypeOK, NEW costs \in SUBSET (0..RetryTimeout), Takes(costs)
    PROVE  elapsed' \in Nat /\ elapsed' >= elapsed /\ elapsed' <= elapsed + RetryTimeout
BY ServerSets DEF DcsClientTypeOK, Takes

-----------------------------------------------------------------------------
(* The list of servers. *)

ListTypeOK ==
    /\ known \subseteq Servers /\ initial \subseteq Servers /\ base \in Servers
    /\ mustLoad \in BOOLEAN /\ outdated \in BOOLEAN /\ bypass \in BOOLEAN

LEMMA RefreshType ==
    ASSUME DcsClientTypeOK, NEW S \in SUBSET Servers, NEW host \in Servers,
           RefreshOf(S, host)
    PROVE  /\ known' \subseteq Servers /\ base' \in Servers
           /\ outdated' = FALSE /\ bypass' \in BOOLEAN
<1>1. known' \subseteq Servers /\ bypass' \in BOOLEAN
  BY DEF DcsClientTypeOK, RefreshOf
<1>. QED
  BY <1>1 DEF RefreshOf

LEMMA LoadType ==
    ASSUME DcsClientTypeOK, Load
    PROVE  ListTypeOK' /\ mustLoad' = FALSE /\ (outdated' => outdated)
<1>1. CASE Replaced
  <2>1. RefreshOf(configured, base) /\ initial' = configured /\ mustLoad' = FALSE
    BY <1>1 DEF Load
  <2>2. configured \subseteq Servers /\ base \in Servers
    BY DEF DcsClientTypeOK
  <2>. QED
    BY <2>1, <2>2, RefreshType DEF ListTypeOK
<1>2. CASE ~Replaced
  BY <1>2 DEF Load, ListTypeOK, DcsClientTypeOK
<1>. QED
  BY <1>1, <1>2

LEMMA LoadFailsType ==
    ASSUME DcsClientTypeOK, LoadFails
    PROVE  ListTypeOK'
BY DEF DcsClientTypeOK, LoadFails, ListTypeOK

(* A server responds while the list that is tried is the one that is known, or
   in the repetition, with what is left of the time. *)
Left == current.share * Cardinality(current.todo)

LEMMA RespondType ==
    ASSUME DcsClientTypeOK, NEW host \in Servers, RespondedBy(host)
    PROVE  ListTypeOK' /\ elapsed' \in elapsed..(elapsed + RetryTimeout) /\ mustLoad' = mustLoad
<1>. USE DEF ListTypeOK
<1>0. known \subseteq Servers /\ elapsed \in Nat /\ RetryTimeout \in Nat
  BY ServerSets DEF DcsClientTypeOK
<1>1. CASE ~current.failed
  BY <1>0, <1>1 DEF DcsClientTypeOK, RespondedBy, list
<1>2. CASE /\ ~RefreshFails(known) /\ RefreshOf(known, host)
           /\ Takes({0, Share(known) * Cardinality(known \ live)})
           /\ UNCHANGED <<initial, mustLoad>>
  <2>1. Share(known) * Cardinality(known \ live) \in 0..RetryTimeout
    BY <1>0, ShareFits
  <2>2. elapsed' \in elapsed..(elapsed + RetryTimeout)
    BY <1>0, <1>2, <2>1 DEF Takes
  <2>3. known' \subseteq Servers /\ base' \in Servers /\ outdated' = FALSE /\ bypass' \in BOOLEAN
    BY <1>0, <1>2, RefreshType
  <2>. QED
    BY <1>2, <2>2, <2>3 DEF DcsClientTypeOK
<1>3. CASE /\ RefreshFails(known)
           /\ Takes({0, Share(known) * Cardinality(known)})
           /\ base' = host
           /\ UNCHANGED <<known, initial, mustLoad, outdated, bypass>>
  <2>1. Share(known) * Cardinality(known) \in 0..RetryTimeout
    BY <1>0, ShareFits
  <2>2. elapsed' \in elapsed..(elapsed + RetryTimeout)
    BY <1>0, <1>3, <2>1 DEF Takes
  <2>. QED
    BY <1>3, <2>2 DEF DcsClientTypeOK
<1>. QED
  BY <1>1, <1>2, <1>3 DEF RespondedBy

-----------------------------------------------------------------------------
(* Types. *)

RequestRecords ==
    [step : Idle \cup {"start", "try", "exhausted", "again", "error", "auth"},
     retry : BOOLEAN, list : SUBSET Servers, todo : SUBSET Servers,
     count : 0..Cardinality(Servers), share : 0..RetryTimeout,
     failed : BOOLEAN, again : BOOLEAN]

LEMMA NoRequestType ==
    ASSUME NEW step \in Idle \cup {"start"}
    PROVE  NoRequest(step) \in RequestRecords
BY ServerSets DEF NoRequest, RequestRecords

LEMMA StepType ==
    ASSUME DcsClientTypeOK, NEW step \in {"start", "error", "auth", "exhausted", "try", "again"}
    PROVE  /\ [current EXCEPT !.step = step] \in RequestRecords
           /\ [current EXCEPT !.step = step, !.again = TRUE] \in RequestRecords
BY DEF DcsClientTypeOK, RequestRecords

LEMMA TryAllType ==
    ASSUME DcsClientTypeOK, NEW now \in SUBSET Servers, TryAll(now)
    PROVE  current' \in RequestRecords
<1>1. current \in RequestRecords
  BY DEF DcsClientTypeOK, RequestRecords
<1>2. Share(now) \in 0..RetryTimeout /\ Cardinality(now) \in 0..Cardinality(Servers)
  BY ShareFits, ServerSets
<1>. HIDE DEF Share
<1>. QED
  BY <1>1, <1>2 DEF TryAll, RequestRecords

LEMMA TypePartsNext ==
    ASSUME /\ flavor' \in Flavors
           /\ live' \subseteq Servers /\ membership' \subseteq Servers /\ configured' \subseteq Servers
           /\ ListTypeOK'
           /\ forbidden' \in BOOLEAN /\ token' \in BOOLEAN
           /\ current' \in RequestRecords /\ elapsed' \in Nat /\ changes' \in 0..MaxChanges
    PROVE  DcsClientTypeOK'
BY DEF DcsClientTypeOK, ListTypeOK, RequestRecords

LEMMA TypePartsHold ==
    ASSUME DcsClientTypeOK
    PROVE  /\ flavor \in Flavors
           /\ live \subseteq Servers /\ membership \subseteq Servers /\ configured \subseteq Servers
           /\ ListTypeOK
           /\ forbidden \in BOOLEAN /\ token \in BOOLEAN
           /\ current \in RequestRecords /\ elapsed \in Nat /\ changes \in 0..MaxChanges
BY DEF DcsClientTypeOK, ListTypeOK, RequestRecords

LEMMA CurrentTypes ==
    ASSUME DcsClientTypeOK, RequestGoesOn
    PROVE  current' \in RequestRecords
<1>. USE TypePartsHold, NoRequestType DEF Idle
<1>0. current \in RequestRecords /\ known \subseteq Servers
  BY DEF ListTypeOK
<1>1. CASE UpdateList
  <2>1. CASE mustLoad /\ Load /\ TryAll(known')
    BY <2>1, LoadType, TryAllType DEF ListTypeOK
  <2>2. CASE current' = NoRequest("failed")
    BY <2>2
  <2>3. CASE RefreshOf(known, base) /\ TryAll(known')
    BY <2>3, <1>0, RefreshType, TryAllType DEF ListTypeOK
  <2>4. CASE TryAll(known)
    BY <2>4, <1>0, TryAllType
  <2>. QED
    BY <1>1, <2>1, <2>2, <2>3, <2>4 DEF UpdateList
<1>2. CASE Answered
  BY <1>2 DEF Answered
<1>3. CASE RetriableError
  BY <1>3, StepType DEF RetriableError
<1>4. CASE RetryAfterError
  BY <1>4, StepType DEF RetryAfterError
<1>5. CASE RequestFails
  <2>1. PICK host \in NextServer :
          IF current.retry
          THEN current' = [current EXCEPT !.todo = current.todo \ {host}, !.failed = TRUE,
                              !.step = IF current.todo \ {host} = {} THEN "exhausted" ELSE "try"]
          ELSE current' = NoRequest("failed")
    BY <1>5 DEF RequestFails
  <2>2. CASE ~current.retry
    BY <2>1, <2>2
  <2>3. CASE current.retry
    <3>1. current.todo \ {host} \subseteq Servers
      BY <1>0 DEF RequestRecords
    <3>. QED
      BY <1>0, <2>1, <2>3, <3>1, ZenonT(30) DEF RequestRecords
  <2>. QED
    BY <2>2, <2>3
<1>6. CASE Exhausted
  <2>1. CASE Load /\ current' = [current EXCEPT !.step = "again",
                            !.list = IF Replaced THEN known' ELSE @,
                            !.count = IF Replaced /\ flavor # "kubernetes"
                                      THEN Cardinality(known') ELSE @]
    <3>1. known' \subseteq Servers
      BY <2>1, LoadType DEF ListTypeOK
    <3>2. Cardinality(known') \in 0..Cardinality(Servers)
      BY <3>1, ServerSets
    <3>. QED
      BY <1>0, <2>1, <3>1, <3>2 DEF RequestRecords
  <2>2. CASE current' = [current EXCEPT !.step = "again"]
    BY <2>2, StepType
  <2>. QED
    BY <1>6, <2>1, <2>2 DEF Exhausted
<1>7. CASE TryAgain
  <2>. DEFINE plan == CalculateTimeouts(current.count, RetryTimeout - elapsed - 1)
  <2>1. CASE current' = NoRequest("failed")
    BY <2>1
  <2>2. CASE plan.nodes # 0
    <3>1. current.count \in Nat /\ RetryTimeout - elapsed - 1 \in Int
      BY <1>0, ServerSets DEF RequestRecords
    <3>2. plan.share \in 0..RetryTimeout
      BY <2>2, <3>1, SharesFit, ServerSets
    <3>. HIDE DEF plan
    <3>3. PICK some \in SUBSET current.list :
            current' = [current EXCEPT !.step = "try", !.todo = some,
                                       !.share = plan.share, !.failed = FALSE]
      BY <1>7, <2>2 DEF TryAgain, plan
    <3>4. some \subseteq Servers
      BY <1>0 DEF RequestRecords
    <3>. QED
      BY <1>0, <3>2, <3>3, <3>4 DEF RequestRecords
  <2>. QED
    BY <1>7, <2>1, <2>2 DEF TryAgain
<1>8. CASE InvalidToken
  BY <1>8, StepType DEF InvalidToken
<1>9. CASE Authenticate
  BY <1>9, StepType DEF Authenticate
<1>. QED
  BY <1>1, <1>2, <1>3, <1>4, <1>5, <1>6, <1>7, <1>8, <1>9 DEF RequestGoesOn

LEMMA ListTypes ==
    ASSUME DcsClientTypeOK, RequestGoesOn
    PROVE  /\ ListTypeOK' /\ elapsed' \in Nat /\ elapsed' >= elapsed
           /\ elapsed' <= elapsed + RetryTimeout
<1>0. ListTypeOK /\ current \in RequestRecords /\ elapsed \in Nat /\ RetryTimeout \in Nat
      /\ RetryTimeout > 0 /\ live \subseteq Servers
  BY TypePartsHold, ServerSets
<1>1. CASE UpdateList
  <2>1. Costs(known) \subseteq 0..RetryTimeout /\ LoadCosts \subseteq 0..RetryTimeout
    BY <1>0, CostsFit DEF ListTypeOK
  <2>2. elapsed' \in Nat /\ elapsed' >= elapsed /\ elapsed' <= elapsed + RetryTimeout
    BY <1>0, <1>1, <2>1, TakesTime DEF UpdateList
  <2>3. CASE mustLoad /\ Load
    BY <2>3, LoadType, <2>2
  <2>4. CASE mustLoad /\ LoadFails
    BY <2>4, LoadFailsType, <2>2
  <2>5. CASE ~mustLoad /\ RefreshOf(known, base) /\ UNCHANGED <<initial, mustLoad>>
    BY <2>5, <1>0, RefreshType, <2>2 DEF ListTypeOK
  <2>6. CASE UNCHANGED list
    BY <2>6, <1>0, <2>2 DEF ListTypeOK, list
  <2>. QED
    BY <1>1, <2>3, <2>4, <2>5, <2>6 DEF UpdateList
<1>2. CASE Answered \/ RetriableError \/ InvalidToken
  BY <1>0, <1>2, RespondType DEF Answered, RetriableError, InvalidToken
<1>3. CASE RetryAfterError
  BY <1>0, <1>3 DEF RetryAfterError, ListTypeOK, list
<1>4. CASE RequestFails
  <2>1. PICK host \in NextServer :
          /\ Takes({0, current.share})
          /\ base' \in {base} \cup (current.todo \ {host})
    BY <1>4 DEF RequestFails
  <2>2. current.share \in 0..RetryTimeout /\ current.todo \subseteq Servers
    BY <1>0 DEF RequestRecords
  <2>3. elapsed' \in Nat /\ elapsed' >= elapsed /\ elapsed' <= elapsed + RetryTimeout
    <3>1. {0, current.share} \in SUBSET (0..RetryTimeout)
      BY <1>0, <2>2
    <3>. QED
      BY <2>1, <3>1, TakesTime
  <2>. QED
    BY <1>0, <1>4, <2>1, <2>2, <2>3 DEF RequestFails, ListTypeOK
<1>5. CASE Exhausted
  <2>1. elapsed' \in Nat /\ elapsed' >= elapsed /\ elapsed' <= elapsed + RetryTimeout
    BY <1>0, <1>5, CostsFit, TakesTime DEF Exhausted
  <2>. QED
    BY <1>5, <2>1, LoadType, LoadFailsType DEF Exhausted
<1>6. CASE TryAgain
  <2>1. elapsed' \in {elapsed, elapsed + 1} /\ mustLoad' \in {mustLoad, TRUE}
    BY <1>6 DEF TryAgain
  <2>2. UNCHANGED <<known, initial, base, outdated, bypass>>
    BY <1>6 DEF TryAgain
  <2>3. elapsed' \in Nat /\ elapsed' >= elapsed /\ elapsed' <= elapsed + RetryTimeout
    BY <1>0, <2>1
  <2>4. mustLoad' \in BOOLEAN
    BY <1>0, <2>1, Zenon DEF ListTypeOK
  <2>. QED
    BY <1>0, <2>2, <2>3, <2>4 DEF ListTypeOK
<1>7. CASE Authenticate
  <2>1. Share(known) \in 0..RetryTimeout /\ known \subseteq Servers
    BY <1>0, ShareFits DEF ListTypeOK
  <2>2. elapsed' \in Nat /\ elapsed' >= elapsed /\ elapsed' <= elapsed + RetryTimeout
    BY <1>0, <1>7, <2>1, TakesTime DEF Authenticate
  <2>. QED
    BY <1>0, <1>7, <2>1, <2>2 DEF Authenticate, ListTypeOK
<1>. QED
  BY <1>1, <1>2, <1>3, <1>4, <1>5, <1>6, <1>7 DEF RequestGoesOn

LEMMA ClientTypesKept ==
    ASSUME DcsClientTypeOK, DcsClientNext
    PROVE  DcsClientTypeOK'
<1>0. /\ flavor \in Flavors
      /\ live \subseteq Servers /\ membership \subseteq Servers /\ configured \subseteq Servers
      /\ ListTypeOK
      /\ forbidden \in BOOLEAN /\ token \in BOOLEAN
      /\ current \in RequestRecords /\ elapsed \in Nat /\ changes \in 0..MaxChanges
  BY TypePartsHold
<1>1. Change => changes' \in 0..MaxChanges
  BY <1>0, DcsClientAssumption DEF Change
<1>2. ASSUME NEW retry \in BOOLEAN, StartRequest(retry) PROVE DcsClientTypeOK'
  <2>1. current' \in RequestRecords
    BY <1>2, NoRequestType DEF StartRequest, RequestRecords, Idle
  <2>. QED
    BY <1>0, <1>2, <2>1, TypePartsNext DEF StartRequest, servers, list, ListTypeOK
<1>3. CASE RequestGoesOn
  <2>1. UNCHANGED <<flavor, servers, forbidden>> /\ token' \in BOOLEAN
    BY <1>0, <1>3 DEF RequestGoesOn, UpdateList, Answered, RetriableError, RetryAfterError, RequestFails,
          Exhausted, TryAgain, InvalidToken, Authenticate, RespondedBy
  <2>2. changes' \in 0..MaxChanges
    BY <1>0, <1>1, <1>3 DEF RequestGoesOn, UpdateList, Answered, RetriableError, RetryAfterError, RequestFails,
          Exhausted, TryAgain, InvalidToken, Authenticate
  <2>. QED
    BY <1>0, <1>3, <2>1, <2>2, CurrentTypes, ListTypes, TypePartsNext DEF servers
<1>4. CASE ServersChange
  BY <1>0, <1>1, <1>4, TypePartsNext DEF ServersChange, Lists, list, ListTypeOK
<1>5. CASE DnsChanges
  BY <1>0, <1>1, <1>5, TypePartsNext DEF DnsChanges, Lists, list, ListTypeOK
<1>6. CASE TimePasses
  BY <1>0, <1>6, TypePartsNext DEF TimePasses, servers, ListTypeOK
<1>7. CASE TokenExpires
  BY <1>0, <1>1, <1>7, TypePartsNext DEF TokenExpires, servers, list, ListTypeOK
<1>. QED
  BY <1>2, <1>3, <1>4, <1>5, <1>6, <1>7 DEF DcsClientNext

-----------------------------------------------------------------------------
(* The time of a request. *)

(* With what is left of its own share of the time a request stays below three
   times retry_timeout while it tries servers. What is tried is what is known,
   and was loaded, or it is tried in the repetition, in the time that is left.
   An etcd3 client that authenticates does so below four times retry_timeout,
   and below three times if the list has still to be loaded. *)
Extra == IF current.again THEN 2 * RetryTimeout ELSE 0

TimeInv ==
    /\ current.step \in Idle
         => elapsed < (IF flavor = "etcd3" THEN 6 ELSE 4) * RetryTimeout
    /\ current.step = "start" =>
         IF current.again
         THEN elapsed + (IF mustLoad \/ outdated THEN RetryTimeout ELSE 0) < 4 * RetryTimeout
         ELSE elapsed < RetryTimeout
    /\ current.step = "try" =>
         /\ elapsed + Left < 3 * RetryTimeout + Extra
         /\ elapsed + Left <= RetryTimeout \/ (~mustLoad /\ current.todo \subseteq known)
    /\ current.step = "exhausted" => elapsed < 3 * RetryTimeout + Extra
    /\ current.step \in {"again", "error"} => elapsed < 4 * RetryTimeout + Extra
    /\ current.step = "auth" =>
         /\ ~current.again /\ elapsed < 4 * RetryTimeout
         /\ mustLoad \/ outdated => elapsed < 3 * RetryTimeout
    /\ ~token \/ current.again \/ current.step = "auth" => flavor = "etcd3"

LEMMA LeftType ==
    ASSUME DcsClientTypeOK
    PROVE  Left \in Nat
<1>1. current.share \in Nat /\ Cardinality(current.todo) \in Nat
  BY ServerSets, TypePartsHold DEF RequestRecords
<1>. QED
  BY <1>1, Products DEF Left

LEMMA TryAllFits ==
    ASSUME DcsClientTypeOK, NEW now \in SUBSET Servers, TryAll(now)
    PROVE  /\ Left' \in 0..RetryTimeout
           /\ current'.step = "try" /\ current'.again = current.again /\ current'.todo = now
<1>1. current \in RequestRecords
  BY TypePartsHold
<1>2. /\ current'.step = "try" /\ current'.again = current.again /\ current'.todo = now
      /\ current'.share = Share(now)
  BY <1>1 DEF TryAll, RequestRecords
<1>. QED
  BY <1>2, ShareFits DEF Left

LEMMA RespondTime ==
    ASSUME DcsClientTypeOK, TimeInv, NEW host \in Servers, RespondedBy(host)
    PROVE  /\ elapsed' < 4 * RetryTimeout + Extra
           /\ mustLoad' \/ outdated' => elapsed' < 3 * RetryTimeout + Extra
<1>1. /\ elapsed \in Nat /\ Left \in Nat /\ RetryTimeout \in Nat /\ RetryTimeout > 0
      /\ Extra \in {0, 2 * RetryTimeout}
  BY LeftType, ServerSets, TypePartsHold DEF Extra
<1>2. /\ elapsed + Left < 3 * RetryTimeout + Extra
      /\ elapsed + Left <= RetryTimeout \/ (~mustLoad /\ current.todo \subseteq known)
      /\ host \in current.todo \cap live
  BY DEF TimeInv, RespondedBy, NextServer
<1>3. elapsed' \in Int /\ elapsed' <= elapsed + RetryTimeout /\ mustLoad' = mustLoad
  BY <1>1, RespondType
<1>4. elapsed' < 4 * RetryTimeout + Extra
  BY <1>1, <1>2, <1>3
<1>5. ASSUME mustLoad' \/ outdated' PROVE elapsed' < 3 * RetryTimeout + Extra
  <2>1. CASE ~current.failed
    BY <1>1, <1>2, <2>1 DEF RespondedBy
  <2>2. CASE elapsed + Left <= RetryTimeout
    BY <1>1, <1>3, <2>2
  <2>3. CASE current.failed /\ ~mustLoad /\ current.todo \subseteq known
    <3>1. known \cap live # {}
      BY <1>2, <2>3
    <3>2. RefreshOf(known, host)
      BY <2>3, <3>1 DEF RespondedBy, RefreshFails
    <3>3. outdated' = FALSE
      BY <3>2 DEF RefreshOf
    <3>. QED
      BY <1>3, <1>5, <2>3, <3>3
  <2>. QED
    BY <1>2, <2>1, <2>2, <2>3
<1>. QED
  BY <1>4, <1>5

LEMMA Below ==
    ASSUME NEW a \in Nat, NEW b \in Nat, NEW c \in Nat, NEW d \in Nat, NEW r \in Int,
           a + b <= c + d
    PROVE  /\ c + d <= r => a + b <= r
           /\ c + d < r => a + b < r /\ a < r
OBVIOUS

LEMMA Sums ==
    ASSUME NEW r \in Nat, r > 0, NEW e \in Nat, NEW f \in Nat, NEW l \in Nat
    PROVE  /\ f < r => f + r < 4 * r /\ f < 4 * r
           /\ e < r /\ f <= e + r /\ l <= r => f + l < 3 * r + 0
           /\ f < 4 * r /\ l <= r => f + l < 3 * r + 2 * r
OBVIOUS

LEMMA TimeKept ==
    ASSUME DcsClientTypeOK, TimeInv, RequestGoesOn
    PROVE  TimeInv'
<1>0. /\ elapsed \in Nat /\ Left \in Nat /\ RetryTimeout \in Nat /\ RetryTimeout > 0
      /\ current \in RequestRecords /\ known \subseteq Servers /\ flavor' = flavor
      /\ elapsed' \in Nat /\ elapsed' <= elapsed + RetryTimeout
  <2>1. flavor' = flavor
    BY DEF RequestGoesOn, UpdateList, Answered, RetriableError, RetryAfterError, RequestFails,
           Exhausted, TryAgain, InvalidToken, Authenticate, RespondedBy
  <2>. QED
    BY <2>1, LeftType, ServerSets, TypePartsHold, ListTypes DEF ListTypeOK
<1>n. elapsed \in Nat /\ elapsed' \in Nat /\ RetryTimeout \in Nat /\ RetryTimeout > 0
  BY <1>0
<1>ended. ASSUME NEW s \in {"answered", "failed"}, current' = NoRequest(s),
               ~token' => ~token, elapsed' < 4 * RetryTimeout + Extra
        PROVE  TimeInv'
  <2>1. current'.step = s /\ current'.again = FALSE
    BY <1>ended DEF NoRequest
  <2>2. elapsed' < (IF flavor = "etcd3" THEN 6 ELSE 4) * RetryTimeout
    BY <1>0, <1>ended DEF TimeInv, Extra
  <2>. QED
    BY <1>0, <1>ended, <2>1, <2>2 DEF TimeInv, Idle
<1>1. CASE UpdateList
  <2>. current.step = "start" /\ token' = token
    BY <1>1 DEF UpdateList
  <2>1. ASSUME TryAll(known'), known' \subseteq Servers, ~mustLoad',
               elapsed' = elapsed \/ mustLoad \/ outdated
        PROVE  TimeInv'
    <3>1. /\ Left' \in 0..RetryTimeout
          /\ current'.step = "try" /\ current'.again = current.again /\ current'.todo = known'
      BY <2>1, TryAllFits
    <3>2. elapsed' + Left' < 3 * RetryTimeout + Extra
      <4>1. Left' \in Nat /\ Left' <= RetryTimeout
        BY <1>0, <3>1
      <4>2. CASE ~current.again
        <5>1. elapsed < RetryTimeout /\ Extra = 0
          BY <4>2 DEF TimeInv, Extra
        <5>. QED
          BY <1>0, <1>n, <4>1, <5>1, Sums
      <4>3. CASE current.again
        <5>1. /\ elapsed + (IF mustLoad \/ outdated THEN RetryTimeout ELSE 0) < 4 * RetryTimeout
              /\ Extra = 2 * RetryTimeout
          BY <4>3 DEF TimeInv, Extra
        <5>2. elapsed' < 4 * RetryTimeout
          BY <1>0, <2>1, <5>1
        <5>. QED
          BY <1>n, <4>1, <5>1, <5>2, Sums
      <4>. QED
        BY <4>2, <4>3
    <3>3. Extra' = Extra
      BY <3>1 DEF Extra
    <3>. QED
      BY <1>0, <2>1, <3>1, <3>2, <3>3 DEF TimeInv, Idle
  <2>2. CASE mustLoad /\ Load /\ TryAll(known')
    BY <2>1, <2>2, LoadType DEF ListTypeOK
  <2>3. CASE mustLoad /\ LoadFails /\ current' = NoRequest("failed")
    <3>1. elapsed' < 4 * RetryTimeout + Extra
      BY <1>0 DEF TimeInv, Extra
    <3>. QED
      BY <1>ended, <2>3, <3>1
  <2>4. CASE ~mustLoad /\ outdated /\ RefreshOf(known, base) /\ TryAll(known') /\ UNCHANGED mustLoad
    <3>1. known' \subseteq Servers
      BY <1>0, <2>4, RefreshType, TypePartsHold DEF ListTypeOK
    <3>. QED
      BY <2>1, <2>4, <3>1
  <2>5. CASE /\ ~mustLoad /\ Takes(IF outdated THEN Costs(known) ELSE {0})
             /\ TryAll(known) /\ UNCHANGED list
    <3>1. elapsed' = elapsed \/ outdated
      BY <1>0, <2>5 DEF Takes
    <3>2. known' = known /\ mustLoad' = mustLoad
      BY <2>5 DEF list
    <3>3. TryAll(known')
      BY <2>5, <3>2 DEF TryAll
    <3>. QED
      BY <1>0, <2>1, <2>5, <3>1, <3>2, <3>3
  <2>. QED
    BY <1>1, <2>2, <2>3, <2>4, <2>5 DEF UpdateList
<1>2. CASE Answered
  <2>1. elapsed' < 4 * RetryTimeout + Extra
    BY <1>2, RespondTime DEF Answered
  <2>. QED
    BY <1>2, <1>ended, <2>1 DEF Answered, RespondedBy
<1>3. CASE RetriableError
  <2>1. elapsed' < 4 * RetryTimeout + Extra /\ token' = token
    BY <1>3, RespondTime DEF RetriableError, RespondedBy
  <2>2. CASE current' = [current EXCEPT !.step = "error"]
    <3>1. current'.step = "error" /\ current'.again = current.again
      BY <1>0, <2>2 DEF RequestRecords
    <3>. QED
      BY <1>0, <2>1, <3>1 DEF TimeInv, Idle, Extra
  <2>. QED
    BY <1>3, <1>ended, <2>1, <2>2 DEF RetriableError
<1>4. CASE RetryAfterError
  <2>1. CASE elapsed + 1 >= RetryTimeout
    BY <1>0, <1>4, <1>ended, <2>1 DEF RetryAfterError, TimeInv
  <2>2. CASE ~(elapsed + 1 >= RetryTimeout)
    <3>1. /\ current'.step = "start" /\ current'.again = current.again
          /\ elapsed' < RetryTimeout /\ token' = token
      BY <1>0, <1>4, <2>2 DEF RetryAfterError, RequestRecords
    <3>2. PICK f \in Nat : f = elapsed'
      BY <1>n
    <3>3. current'.again => flavor = "etcd3"
      BY <3>1 DEF TimeInv
    <3>4. ~token' => flavor = "etcd3"
      BY <3>1 DEF TimeInv
    <3>5. elapsed' + (IF mustLoad' \/ outdated' THEN RetryTimeout ELSE 0) < 4 * RetryTimeout
      <4>1. f < RetryTimeout
        BY <3>1, <3>2
      <4>2. f + RetryTimeout < 4 * RetryTimeout /\ f + 0 < 4 * RetryTimeout
        BY <1>n, <4>1
      <4>. QED
        BY <3>2, <4>2
    <3>6. current'.step = "start"
      BY <3>1
    <3>. QED
      BY <3>1, <3>3, <3>4, <3>5, <3>6, <1>0 DEF TimeInv, Idle
  <2>. QED
    BY <2>1, <2>2
<1>5. CASE RequestFails
  <2>1. PICK host \in NextServer :
          /\ Takes({0, current.share})
          /\ IF current.retry
             THEN current' = [current EXCEPT !.todo = current.todo \ {host}, !.failed = TRUE,
                                !.step = IF current.todo \ {host} = {} THEN "exhausted" ELSE "try"]
             ELSE current' = NoRequest("failed")
    BY <1>5 DEF RequestFails
  <2>2. host \in current.todo /\ current.todo \subseteq Servers /\ current.share \in Nat
    BY <1>0, <2>1 DEF NextServer, RequestRecords
  <2>3. elapsed' <= elapsed + current.share
    BY <1>0, <2>1, <2>2 DEF Takes
  <2>4. /\ Cardinality(current.todo) \in Nat /\ Cardinality(current.todo) > 0
        /\ Cardinality(current.todo \ {host}) = Cardinality(current.todo) - 1
    <3>1. IsFiniteSet(current.todo) /\ Cardinality(current.todo) \in Nat
      BY <2>2, ServerSets
    <3>. QED
      <4>1. Cardinality(current.todo \ {host}) = Cardinality(current.todo) - 1
        BY <2>2, <3>1, FS_RemoveElement
      <4>2. Cardinality(current.todo) # 0
        BY <2>2, <3>1, FS_EmptySet
      <4>. QED
        BY <3>1, <4>1, <4>2
  <2>5. current.step = "try" /\ token' = token /\ known' = known /\ mustLoad' = mustLoad
    BY <1>5 DEF RequestFails
  <2>6. current.share * Cardinality(current.todo \ {host}) + current.share = Left
    BY <2>2, <2>4, Products DEF Left
  <2>7. current.share * Cardinality(current.todo \ {host}) \in Nat
    BY <2>2, <2>4, Products
  <2>8. elapsed' < 4 * RetryTimeout + Extra
    BY <1>0, <2>2, <2>3, <2>5, <2>6, <2>7 DEF TimeInv, Extra
  <2>9. CASE current.retry
    <3>1. /\ current'.step = IF current.todo \ {host} = {} THEN "exhausted" ELSE "try"
          /\ current'.todo = current.todo \ {host}
          /\ current'.share = current.share /\ current'.again = current.again
      BY <1>0, <2>1, <2>9 DEF RequestRecords
    <3>2. elapsed' + Left' <= elapsed + Left /\ elapsed' <= elapsed + Left /\ Left' \in Nat
      BY <1>0, <2>2, <2>3, <2>6, <2>7, <3>1 DEF Left
    <3>3. Extra' = Extra /\ Extra \in Nat
      BY <1>0, <3>1 DEF Extra
    <3>4. elapsed' + Left' < 3 * RetryTimeout + Extra' /\ elapsed' < 3 * RetryTimeout + Extra'
      <4>1. elapsed + Left < 3 * RetryTimeout + Extra
        BY <2>5 DEF TimeInv
      <4>2. 3 * RetryTimeout + Extra \in Nat
        BY <1>0, <3>3
      <4>3. elapsed' + Left' < 3 * RetryTimeout + Extra /\ elapsed' < 3 * RetryTimeout + Extra
        <5>1. 3 * RetryTimeout + Extra \in Int
          BY <4>2
        <5>2. elapsed' + Left' <= elapsed + Left /\ Left' \in Nat
          BY <3>2
        <5>3. elapsed \in Nat /\ Left \in Nat /\ elapsed' \in Nat
          BY <1>0
        <5>4. PICK f \in Nat : f = elapsed'
          BY <5>3
        <5>5. PICK l \in Nat : l = Left'
          BY <5>2
        <5>6. PICK x \in Int : x = 3 * RetryTimeout + Extra
          BY <5>1
        <5>7. f + l <= elapsed + Left
          BY <5>2, <5>4, <5>5
        <5>8. elapsed + Left < x
          BY <4>1, <5>6
        <5>9. f + l < x /\ f < x
          BY <5>3, <5>7, <5>8
        <5>. QED
          BY <5>4, <5>5, <5>6, <5>9
      <4>. QED
        BY <3>3, <4>3
    <3>5. elapsed' + Left' <= RetryTimeout \/ (~mustLoad' /\ current'.todo \subseteq known')
      <4>1. elapsed + Left <= RetryTimeout \/ (~mustLoad /\ current.todo \subseteq known)
        BY <2>5 DEF TimeInv
      <4>2. CASE elapsed + Left <= RetryTimeout
        <5>1. elapsed \in Nat /\ Left \in Nat /\ elapsed' \in Nat /\ RetryTimeout \in Int
          BY <1>0
        <5>2. elapsed' + Left' <= elapsed + Left /\ Left' \in Nat
          BY <3>2
        <5>3. PICK f \in Nat : f = elapsed'
          BY <5>1
        <5>4. PICK l \in Nat : l = Left'
          BY <5>2
        <5>5. f + l <= elapsed + Left
          BY <5>2, <5>3, <5>4
        <5>6. f + l <= RetryTimeout
          BY <4>2, <5>1, <5>5, Below
        <5>. QED
          BY <5>3, <5>4, <5>6
      <4>3. CASE ~mustLoad /\ current.todo \subseteq known
        BY <2>5, <3>1, <4>3
      <4>. QED
        BY <4>1, <4>2, <4>3
    <3>. QED
      BY <1>0, <2>5, <3>1, <3>4, <3>5 DEF TimeInv, Idle
  <2>. QED
    BY <1>ended, <2>1, <2>5, <2>8, <2>9
<1>6. CASE Exhausted
  <2>1. current'.step = "again" /\ current'.again = current.again /\ token' = token
    BY <1>0, <1>6 DEF Exhausted, RequestRecords
  <2>2. elapsed' < 4 * RetryTimeout + Extra'
    BY <1>0, <1>6, <2>1 DEF Exhausted, TimeInv, Extra
  <2>. QED
    BY <1>0, <1>6, <2>1, <2>2 DEF TimeInv, Idle, Exhausted
<1>7. CASE TryAgain
  <2>. DEFINE plan == CalculateTimeouts(current.count, RetryTimeout - elapsed - 1)
  <2>. current.step = "again" /\ token' = token
    BY <1>7 DEF TryAgain
  <2>1. CASE plan.nodes = 0
    BY <1>0, <1>7, <1>ended, <2>1 DEF TryAgain, TimeInv
  <2>2. CASE plan.nodes # 0
    <3>1. current.count \in Nat /\ RetryTimeout - elapsed - 1 \in Int
      BY <1>0, ServerSets DEF RequestRecords
    <3>2. /\ plan.share \in Nat /\ plan.nodes \in Nat
          /\ plan.share * plan.nodes <= RetryTimeout - elapsed - 1
      BY <2>2, <3>1, SharesFit
    <3>. HIDE DEF plan
    <3>3. PICK some \in SUBSET current.list :
            /\ Cardinality(some) = Min({plan.nodes, Cardinality(current.list)})
            /\ current' = [current EXCEPT !.step = "try", !.todo = some,
                                          !.share = plan.share, !.failed = FALSE]
      BY <1>7, <2>2 DEF TryAgain, plan
    <3>4. /\ current'.step = "try" /\ current'.todo = some /\ current'.share = plan.share
          /\ current'.again = current.again /\ elapsed' = elapsed + 1
      BY <1>0, <1>7, <2>2, <3>3 DEF RequestRecords, TryAgain, plan
    <3>5. Cardinality(some) \in Nat /\ Cardinality(some) <= plan.nodes
      <4>1. Cardinality(some) \in Nat /\ Cardinality(current.list) \in Nat
        BY <1>0, ServerSets DEF RequestRecords
      <4>2. ASSUME NEW a \in Nat, NEW b \in Nat PROVE Min({a, b}) \in Nat /\ Min({a, b}) <= a
        BY <4>2 DEF Min
      <4>. QED
        BY <3>2, <3>3, <4>1, <4>2
    <3>6. plan.share * Cardinality(some) \in Nat /\ plan.share * plan.nodes \in Nat
          /\ plan.share * Cardinality(some) <= plan.share * plan.nodes
      BY <3>2, <3>5, Products
    <3>7. elapsed' + Left' <= RetryTimeout
      BY <1>0, <3>2, <3>4, <3>6 DEF Left
    <3>8. elapsed' + Left' < 3 * RetryTimeout + Extra'
      BY <1>0, <3>4, <3>6, <3>7 DEF Extra, Left
    <3>. QED
      BY <1>0, <3>4, <3>7, <3>8 DEF TimeInv, Idle
  <2>. QED
    BY <2>1, <2>2
<1>8. CASE InvalidToken
  <2>1. /\ elapsed' < 4 * RetryTimeout + Extra
        /\ mustLoad' \/ outdated' => elapsed' < 3 * RetryTimeout + Extra
    BY <1>8, RespondTime DEF InvalidToken
  <2>2. ~token /\ token' = token /\ flavor = "etcd3"
    BY <1>8 DEF InvalidToken, RespondedBy, TimeInv
  <2>3. CASE current.again
    BY <1>8, <1>ended, <2>1, <2>2, <2>3 DEF InvalidToken
  <2>4. CASE ~current.again
    <3>1. current'.step = "auth" /\ current'.again = current.again
      BY <1>0, <1>8, <2>4 DEF InvalidToken, RequestRecords
    <3>. QED
      BY <1>0, <2>1, <2>2, <2>4, <3>1 DEF TimeInv, Idle, Extra
  <2>. QED
    BY <2>3, <2>4
<1>9. CASE Authenticate
  <2>1. current.step = "auth" /\ ~current.again /\ flavor = "etcd3"
    BY <1>9 DEF Authenticate, TimeInv
  <2>2. CASE base \in live
    <3>1. /\ current'.step = "start" /\ current'.again = TRUE
          /\ elapsed' = elapsed /\ mustLoad' = mustLoad /\ outdated' = outdated
      BY <1>0, <1>9, <2>2 DEF Authenticate, RequestRecords
    <3>. QED
      BY <1>0, <2>1, <3>1 DEF TimeInv, Idle
  <2>3. CASE base \notin live
    <3>1. current' = NoRequest("failed")
      BY <1>9, <2>3 DEF Authenticate
    <3>2. current'.step = "failed" /\ current'.again = FALSE
      BY <3>1 DEF NoRequest
    <3>3. elapsed' < 6 * RetryTimeout
      BY <1>0, <2>1 DEF TimeInv
    <3>. QED
      BY <1>0, <2>1, <3>2, <3>3 DEF TimeInv, Idle
  <2>. QED
    BY <2>2, <2>3
<1>. QED
  BY <1>1, <1>2, <1>3, <1>4, <1>5, <1>6, <1>7, <1>8, <1>9 DEF RequestGoesOn

LEMMA TimeInvKept ==
    ASSUME DcsClientTypeOK, TimeInv, DcsClientNext
    PROVE  TimeInv'
<1>1. ASSUME NEW retry \in BOOLEAN, StartRequest(retry) PROVE TimeInv'
  <2>1. /\ current'.step = "start" /\ current'.again = FALSE /\ elapsed' = 0
        /\ token' = token /\ flavor' = flavor
    BY <1>1 DEF StartRequest, NoRequest
  <2>. QED
    BY <2>1, ServerSets DEF TimeInv, Idle
<1>2. CASE RequestGoesOn
  BY <1>2, TimeKept
<1>3. CASE ServersChange \/ DnsChanges
  BY <1>3 DEF ServersChange, DnsChanges, list, TimeInv, Left, Extra
<1>4. CASE TimePasses
  <2>1. /\ current.step \in Idle
        /\ UNCHANGED <<flavor, known, mustLoad, token, current, elapsed>>
    BY <1>4 DEF TimePasses
  <2>. QED
    BY <2>1 DEF TimeInv, Idle
<1>5. CASE TokenExpires
  BY <1>5 DEF TokenExpires, list, TimeInv, Left, Extra
<1>. QED
  BY <1>1, <1>2, <1>3, <1>4, <1>5 DEF DcsClientNext

ClientInv == DcsClientTypeOK /\ TimeInv

(* The variables of the client keep their types, and a request is within its time
   at every step, in every execution of DcsClient. *)
THEOREM ClientInductive == DcsClientSpec => []ClientInv
<1>1. DcsClientInit => ClientInv
  <2>. SUFFICES ASSUME DcsClientInit PROVE ClientInv
    OBVIOUS
  <2>1. current = NoRequest("idle") /\ NoRequest("idle") \in RequestRecords
    BY NoRequestType DEF DcsClientInit, Idle
  <2>2. configured \subseteq Servers /\ membership \subseteq Servers
    BY DcsClientAssumption DEF DcsClientInit, Lists
  <2>3. ListTypeOK
    BY <2>2 DEF DcsClientInit, ListTypeOK
  <2>4. forbidden \in BOOLEAN /\ token \in BOOLEAN
    BY DEF DcsClientInit
  <2>5. DcsClientTypeOK
    BY <2>1, <2>2, <2>3, <2>4, DcsClientAssumption
    DEF DcsClientInit, DcsClientTypeOK, ListTypeOK, RequestRecords
  <2>6. current.step = "idle" /\ current.again = FALSE /\ elapsed = 0 /\ token
    BY <2>1 DEF DcsClientInit, NoRequest
  <2>7. TimeInv
    BY <2>6, ServerSets DEF TimeInv, Idle
  <2>. QED
    BY <2>5, <2>7 DEF ClientInv
<1>2. ClientInv /\ [DcsClientNext]_dcsClientVars => ClientInv'
  <2>1. ClientInv /\ DcsClientNext => ClientInv'
    BY ClientTypesKept, TimeInvKept DEF ClientInv
  <2>2. ClientInv /\ UNCHANGED dcsClientVars => ClientInv'
    BY DEF ClientInv, DcsClientTypeOK, TimeInv, Left, Extra, dcsClientVars, servers, list
  <2>. QED
    BY <2>1, <2>2
<1>. QED
  BY <1>1, <1>2, PTL DEF DcsClientSpec

(* A request ends within four times retry_timeout, that of an etcd3 client,
   which may have to authenticate, within six times: however many servers
   there are and whatever happens to them, to the membership, to the DNS
   records and to the answers. *)
THEOREM ClientRequestsEnd == DcsClientSpec => []RequestIsBounded
<1>1. ClientInv => RequestIsBounded
  <2>. SUFFICES ASSUME ClientInv PROVE RequestIsBounded
    OBVIOUS
  <2>1. /\ elapsed \in Nat /\ Left \in Nat /\ RetryTimeout \in Nat /\ RetryTimeout > 0
        /\ current \in RequestRecords
    BY LeftType, ServerSets, TypePartsHold DEF ClientInv
  <2>2. /\ current.again => flavor = "etcd3"
        /\ current.step = "auth" => flavor = "etcd3"
        /\ Extra = IF current.again THEN 2 * RetryTimeout ELSE 0
    BY DEF ClientInv, TimeInv, Extra
  <2>3. CASE current.step \in Idle
    BY <2>3 DEF ClientInv, TimeInv, RequestIsBounded
  <2>4. CASE current.step # "start" /\ current.step \notin Idle
    <3>1. elapsed < 4 * RetryTimeout + Extra
      BY <2>1, <2>2, <2>4 DEF ClientInv, TimeInv, RequestRecords
    <3>. QED
      BY <2>1, <2>2, <3>1 DEF RequestIsBounded
  <2>5. CASE current.step = "start"
    <3>1. elapsed < 4 * RetryTimeout
      BY <2>1, <2>5 DEF ClientInv, TimeInv
    <3>. QED
      BY <2>1, <3>1 DEF RequestIsBounded
  <2>. QED
    BY <2>3, <2>4, <2>5
<1>. QED
  BY <1>1, ClientInductive, PTL

-----------------------------------------------------------------------------
(* The replication slots. *)

LEMMA WantedType ==
    ASSUME NEW c \in Clusters, NEW role \in {"master", "replica"}
    PROVE  WantedSlots(c, role) \in SlotMap
<1>1. c.permanent \in SlotMap
  BY SlotsAssumption DEF ClusterViews
<1>2. \A s \in Slots : c.permanent[s] \in Types \union {Absent}
  BY <1>1 DEF SlotMap
<1>. QED
  BY <1>2 DEF WantedSlots, SlotMap, Types

(* SlotsTypeOK in parts: the slots, the rest, and the counters of the bounds. *)
MapTypes ==
  /\ slots \in SlotMap /\ assumed \in SlotMap /\ desired \in SlotMap
  /\ inUse \subseteq Slots /\ todo \subseteq Slots /\ spared \subseteq Slots

StateTypes ==
  /\ clusterNow \in Clusters /\ seen \in Clusters
  /\ slotRole \in {"master", "replica"}
  /\ accepts \in BOOLEAN /\ restarting \in BOOLEAN
  /\ paused \in BOOLEAN /\ scheduled \in BOOLEAN
  /\ syncPc \in {"idle", "load", "drop", "create", "logical"}

CounterTypes ==
  slotChanges \in 0..MaxSlotChanges /\ slotMishaps \in 0..MaxSlotMishaps

LEMMA CounterTypesKept ==
    ASSUME CounterTypes, SlotsNext
    PROVE  CounterTypes'
<1>. USE SlotsAssumption DEF CounterTypes, outside, SlotChange, SlotMishap
<1>1. CASE ClusterChanges \/ PromotedInPlace \/ ClientLeaves \/ PauseBegins \/ PauseEnds
  BY <1>1 DEF ClusterChanges, PromotedInPlace, ClientLeaves, PauseBegins, PauseEnds
<1>2. CASE ClientConnects \/ ChangedInPause
  BY <1>2 DEF ClientConnects, ChangedInPause
<1>3. CASE PostgresDies \/ RestartBegins \/ StartFails
  BY <1>3 DEF PostgresDies, RestartBegins, StartFails
<1>4. CASE RestartStep
  BY <1>4 DEF RestartStep, PostgresStarts, RestartNoticed
<1>5. CASE BeginSync \/ LoadSlots \/ DropsDone \/ PhysicalDone \/ EndSync
  BY <1>5 DEF BeginSync, LoadSlots, DropsDone, PhysicalDone, EndSync
<1>6. CASE SyncFails
  BY <1>6 DEF SyncFails
<1>7. ASSUME NEW s \in Slots, DropOld(s) \/ DropDifferent(s) \/ Create(s)
      PROVE  CounterTypes'
  BY <1>7 DEF DropOld, DropDifferent, Create
<1>. QED
  BY <1>1, <1>2, <1>3, <1>4, <1>5, <1>6, <1>7 DEF SlotsNext, SyncStep

LEMMA StateTypesKept ==
    ASSUME StateTypes, SlotsNext
    PROVE  StateTypes'
<1>. USE DEF StateTypes, sync, belief, outside, pgState
<1>1. CASE ClusterChanges \/ PromotedInPlace \/ ClientLeaves \/ PauseBegins \/ PauseEnds
  BY <1>1 DEF ClusterChanges, PromotedInPlace, ClientLeaves, PauseBegins, PauseEnds
<1>2. CASE ClientConnects \/ ChangedInPause
  BY <1>2 DEF ClientConnects, ChangedInPause
<1>3. CASE PostgresDies \/ RestartBegins \/ StartFails
  BY <1>3 DEF PostgresDies, RestartBegins, StartFails
<1>4. CASE RestartStep
  BY <1>4 DEF RestartStep, PostgresStarts, RestartNoticed
<1>5. CASE BeginSync \/ LoadSlots \/ DropsDone \/ PhysicalDone \/ EndSync
  BY <1>5 DEF BeginSync, LoadSlots, DropsDone, PhysicalDone, EndSync
<1>6. CASE SyncFails
  BY <1>6 DEF SyncFails
<1>7. ASSUME NEW s \in Slots, DropOld(s) \/ DropDifferent(s) \/ Create(s)
      PROVE  StateTypes'
  BY <1>7 DEF DropOld, DropDifferent, Create
<1>. QED
  BY <1>1, <1>2, <1>3, <1>4, <1>5, <1>6, <1>7 DEF SlotsNext, SyncStep

LEMMA MapTypesKept ==
    ASSUME MapTypes, StateTypes, SlotsNext
    PROVE  MapTypes'
<1>. USE DEF MapTypes, sync, belief, outside, pgState
<1>1. CASE ClusterChanges \/ PromotedInPlace \/ ClientLeaves \/ PauseBegins \/ PauseEnds
  BY <1>1 DEF ClusterChanges, PromotedInPlace, ClientLeaves, PauseBegins, PauseEnds
<1>2. CASE ClientConnects
  BY <1>2 DEF ClientConnects, There
<1>3. CASE ChangedInPause
  BY <1>3 DEF ChangedInPause, SlotMap
<1>4. CASE PostgresDies \/ RestartBegins \/ StartFails \/ RestartNoticed
  BY <1>4 DEF PostgresDies, RestartBegins, StartFails, RestartNoticed
<1>5. CASE PostgresStarts
  BY <1>5 DEF PostgresStarts, Nothing, SlotMap
<1>6. CASE BeginSync \/ DropsDone \/ PhysicalDone \/ EndSync \/ SyncFails
  BY <1>6 DEF BeginSync, DropsDone, PhysicalDone, EndSync, SyncFails, There
<1>7. CASE LoadSlots
  <2>1. desired' \in SlotMap
    BY <1>7, WantedType DEF LoadSlots, StateTypes
  <2>2. assumed' \in SlotMap
    BY <1>7 DEF LoadSlots
  <2>3. todo' \subseteq Slots /\ spared' \subseteq Slots
    BY <1>7 DEF LoadSlots, There
  <2>. QED
    BY <1>7, <2>1, <2>2, <2>3 DEF LoadSlots
<1>8. ASSUME NEW s \in Slots, DropOld(s) \/ DropDifferent(s)
      PROVE  MapTypes'
  BY <1>8 DEF DropOld, DropDifferent, SlotMap
<1>9. ASSUME NEW s \in Slots, Create(s)
      PROVE  MapTypes'
  <2>1. desired[s] \in Types \union {Absent}
    BY DEF SlotMap
  <2>2. slots' \in SlotMap
    BY <1>9, <2>1 DEF Create, SlotMap
  <2>. QED
    BY <1>9, <2>2 DEF Create
<1>. QED
  BY <1>1, <1>2, <1>3, <1>4, <1>5, <1>6, <1>7, <1>8, <1>9
     DEF SlotsNext, SyncStep, RestartStep

(* Every variable of the slots keeps its type (SlotsTypeOK). *)
THEOREM SlotsTypes == SlotsSpec => []SlotsTypeOK
<1>1. SlotsTypeOK <=> MapTypes /\ StateTypes /\ CounterTypes
  BY DEF SlotsTypeOK, MapTypes, StateTypes, CounterTypes
<1>2. SlotsInit => MapTypes
  BY DEF SlotsInit, MapTypes, Nothing, SlotMap
<1>3. SlotsInit => StateTypes
  BY DEF SlotsInit, StateTypes
<1>4. SlotsInit => CounterTypes
  BY SlotsAssumption DEF SlotsInit, CounterTypes
<1>5. MapTypes /\ StateTypes /\ CounterTypes /\ [SlotsNext]_slotsVars
        => (MapTypes /\ StateTypes /\ CounterTypes)'
  <2>1. CASE UNCHANGED slotsVars
    BY <2>1 DEF slotsVars, MapTypes, StateTypes, CounterTypes
  <2>. QED
    BY <2>1, MapTypesKept, StateTypesKept, CounterTypesKept
<1>. QED
  BY <1>1, <1>2, <1>3, <1>4, <1>5, PTL DEF SlotsSpec

(* What the comparison knows of a slot, step by step: before it, what the copy
   says; in the first loop that the slots behind it are gone; in the others that
   the slots behind it are as they are wanted. *)
AsBelieved(s) ==
  CASE syncPc \in {"idle", "load"} -> slots[s] = assumed[s]
    [] syncPc = "drop" ->
         slots[s] = IF s \in todo \union There(desired) THEN assumed[s] ELSE Absent
    [] OTHER -> slots[s] = IF s \in todo THEN assumed[s] ELSE desired[s]

(* No load is due, and Postgres answers that was compared before. *)
Trusted == ~scheduled /\ accepts /\ ~restarting /\ ~paused

BeliefInv ==
  /\ syncPc = "drop" => todo \intersect There(desired) = {}
  /\ Trusted => \A s \in Slots : AsBelieved(s) \/ s \in spared

LEMMA BeliefKeptInComparison ==
    ASSUME SlotsTypeOK, BeliefInv, SyncStep
    PROVE  BeliefInv'
<1>. USE DEF SlotsTypeOK, BeliefInv, Trusted, sync, belief, outside, pgState
<1>1. CASE BeginSync
  BY <1>1 DEF BeginSync, AsBelieved
<1>2. CASE LoadSlots
  <2>1. syncPc' = "drop" /\ slots' = slots
    BY <1>2 DEF LoadSlots
  <2>2. todo' \subseteq There(assumed') \ There(desired')
    BY <1>2 DEF LoadSlots
  <2>3. \A s \in Slots : s \in There(assumed') \ There(desired')
                           => s \in todo' \/ s \in spared'
    BY <1>2 DEF LoadSlots
  <2>4. ASSUME Trusted', NEW s \in Slots
        PROVE  slots[s] = assumed'[s] \/ s \in spared'
    <3>1. CASE scheduled
      BY <1>2, <3>1 DEF LoadSlots
    <3>2. CASE ~scheduled
      BY <1>2, <2>4, <3>2 DEF LoadSlots, AsBelieved
    <3>. QED
      BY <3>1, <3>2
  <2>5. ASSUME Trusted', NEW s \in Slots
        PROVE  AsBelieved(s)' \/ s \in spared'
    <3>1. s \in todo' \union There(desired') \/ assumed'[s] = Absent \/ s \in spared'
      BY <2>3 DEF There
    <3>. QED
      BY <2>1, <2>4, <2>5, <3>1 DEF AsBelieved
  <2>. QED
    BY <2>1, <2>2, <2>5
<1>3. CASE DropsDone
  BY <1>3 DEF DropsDone, AsBelieved, There
<1>4. CASE PhysicalDone
  BY <1>4 DEF PhysicalDone, AsBelieved
<1>5. CASE EndSync
  BY <1>5 DEF EndSync, AsBelieved
<1>6. CASE SyncFails
  BY <1>6 DEF SyncFails
<1>7. ASSUME NEW d \in Slots, DropOld(d)
      PROVE  BeliefInv'
  BY <1>7, SMTT(30) DEF DropOld, AsBelieved, SlotMap, There
<1>8. ASSUME NEW d \in Slots, DropDifferent(d)
      PROVE  BeliefInv'
  BY <1>8, SMTT(30) DEF DropDifferent, Differs, AsBelieved, SlotMap
<1>9. ASSUME NEW d \in Slots, Create(d)
      PROVE  BeliefInv'
  BY <1>9, SMTT(30) DEF Create, AsBelieved, SlotMap
<1>. QED
  BY <1>1, <1>2, <1>3, <1>4, <1>5, <1>6, <1>7, <1>8, <1>9 DEF SyncStep

LEMMA BeliefKept ==
    ASSUME SlotsTypeOK, BeliefInv, SlotsNext
    PROVE  BeliefInv'
<1>. USE DEF BeliefInv, Trusted, sync, belief, outside, pgState
<1>1. CASE ClusterChanges \/ PromotedInPlace \/ ClientConnects \/ ClientLeaves
  BY <1>1 DEF ClusterChanges, PromotedInPlace, ClientConnects, ClientLeaves, AsBelieved
<1>2. CASE PauseBegins \/ ChangedInPause \/ PauseEnds
  BY <1>2 DEF PauseBegins, ChangedInPause, PauseEnds
<1>3. CASE PostgresDies \/ RestartBegins \/ StartFails
  BY <1>3 DEF PostgresDies, RestartBegins, StartFails
<1>4. CASE RestartStep
  BY <1>4 DEF RestartStep, PostgresStarts, RestartNoticed
<1>5. CASE SyncStep
  BY <1>5, BeliefKeptInComparison
<1>. QED
  BY <1>1, <1>2, <1>3, <1>4, <1>5 DEF SlotsNext

(* For all slots, clusters, failing calls and restarts (BeliefInv): unless a load
   is scheduled, the copy of the slots is true of the Postgres that runs, but for
   those that were spared, whatever a comparison that failed had already done
   (load_replication_slots, schedule).  Excepted are a pause, at the end of which
   a load is scheduled, and a restart that the HA loop has yet to notice. *)
THEOREM BeliefInductive == SlotsSpec => [](SlotsTypeOK /\ BeliefInv)
<1>1. SlotsInit => BeliefInv
  BY DEF SlotsInit, BeliefInv, Trusted
<1>2. SlotsTypeOK /\ BeliefInv /\ [SlotsNext]_slotsVars => BeliefInv'
  <2>1. CASE UNCHANGED slotsVars
    BY <2>1 DEF slotsVars, BeliefInv, Trusted, AsBelieved
  <2>. QED
    BY <2>1, BeliefKept
<1>. QED
  BY <1>1, <1>2, SlotsTypes, PTL DEF SlotsSpec

(* Between two comparisons a slot that is not the one that the copy tells of was
   spared, or a load is due, or the HA loop has to notice a restart first. *)
CopyIsTrue ==
  (syncPc = "idle" /\ Trusted) => \A s \in Slots : slots[s] = assumed[s] \/ s \in spared

THEOREM SlotsAreKnown == SlotsSpec => []CopyIsTrue
<1>1. BeliefInv => CopyIsTrue
  BY DEF BeliefInv, CopyIsTrue, AsBelieved
<1>. QED
  BY <1>1, BeliefInductive, PTL

-----------------------------------------------------------------------------
(* The executor of background tasks. *)

USE NoWorkerAssumption, ForcedAssumption, TasksAssumption

(* What schedule() does to the types. *)
LEMMA ScheduleTypes ==
    ASSUME ExecutorTypeOK, NEW w \in Workers, NEW action \in Jobs, Schedule(w, action)
    PROVE  /\ slot' \in Workers \cup {NoWorker}
           /\ execCancelled' \in BOOLEAN /\ finished' \in BOOLEAN
           /\ pc' \in [Workers -> {"free", "start", "reset", "func", "process", "commit", "finish"}]
           /\ job' \in [Workers -> Jobs]
BY DEF Schedule, ExecutorTypeOK

LEMMA WorkerStepTypes ==
    ASSUME ExecutorTypeOK, NEW w \in Workers, WorkerStep(w)
    PROVE  ExecutorTypeOK'
<1>1. CASE Begin(w)
  BY <1>1 DEF Begin, ExecutorTypeOK, critical
<1>2. CASE ResetIsCancelled(w)
  BY <1>2 DEF ResetIsCancelled, ExecutorTypeOK, executor, critical
<1>3. CASE CallProcess(w)
  BY <1>3 DEF CallProcess, ExecutorTypeOK, executor, critical
<1>4. CASE ProcessEnds(w)
  BY <1>4 DEF ProcessEnds, ExecutorTypeOK, executor, critical
<1>5. CASE Commit(w)
  <2>1. pc' \in [Workers -> {"free", "start", "reset", "func", "process", "commit", "finish"}]
    BY <1>5 DEF Commit, ExecutorTypeOK
  <2>2. completed' \in [CriticalJobs -> BOOLEAN]
    BY <1>5 DEF Commit, ExecutorTypeOK
  <2>. QED
    BY <1>5, <2>1, <2>2 DEF Commit, ExecutorTypeOK, executor
<1>6. CASE FuncReturns(w)
  BY <1>6 DEF FuncReturns, ExecutorTypeOK, executor, critical
<1>7. CASE Finish(w)
  BY <1>7 DEF Finish, ResetTask, Woken, ExecutorTypeOK, Jobs, CriticalJobs
<1>. QED
  BY <1>1, <1>2, <1>3, <1>4, <1>5, <1>6, <1>7 DEF WorkerStep

LEMMA RequestStepTypes ==
    ASSUME ExecutorTypeOK, NEW r \in Requests, CheckLeader(r) \/ RequestStep(r)
    PROVE  ExecutorTypeOK'
<1>1. CASE CheckLeader(r)
  BY <1>1 DEF CheckLeader, ExecutorTypeOK, executor, critical
<1>2. CASE Cancel(r)
  BY <1>2 DEF Cancel, ExecutorTypeOK, critical
<1>3. CASE CancelProcess(r)
  BY <1>3 DEF CancelProcess, ExecutorTypeOK, executor, critical
<1>4. CASE WaitFinished(r)
  BY <1>4 DEF WaitFinished, ExecutorTypeOK, executor, critical
<1>5. CASE ResetScheduledAction(r)
  BY <1>5 DEF ResetScheduledAction, ExecutorTypeOK, critical
<1>6. CASE Reinitialize(r)
  BY <1>6, ScheduleTypes DEF Reinitialize, ExecutorTypeOK, executor, critical, Jobs
<1>. QED
  BY <1>1, <1>2, <1>3, <1>4, <1>5, <1>6 DEF RequestStep

LEMMA SchedulerStepTypes ==
    ASSUME ExecutorTypeOK, NEW w \in Workers, StartPromote(w) \/ StartFollow(w) \/ Restart(w)
    PROVE  ExecutorTypeOK'
<1>1. CASE StartPromote(w)
  BY <1>1, ScheduleTypes DEF StartPromote, ResetTask, ExecutorTypeOK, Jobs, CriticalJobs, Owners
<1>2. CASE StartFollow(w)
  BY <1>2, ScheduleTypes DEF StartFollow, ExecutorTypeOK, Jobs, critical
<1>3. CASE Restart(w)
  BY <1>3, ScheduleTypes DEF Restart, ExecutorTypeOK, Jobs, CriticalJobs, critical
<1>. QED
  BY <1>1, <1>2, <1>3

LEMMA CycleStepTypes ==
    ASSUME ExecutorTypeOK, CycleBegins \/ CycleEnds \/ CancelPromote \/ CancelRestart \/ LeaderChanges
    PROVE  ExecutorTypeOK'
<1>1. CASE CycleBegins
  BY <1>1 DEF CycleBegins, ExecutorTypeOK, executor, critical
<1>2. CASE CycleEnds
  BY <1>2 DEF CycleEnds, ExecutorTypeOK, executor, critical
<1>3. CASE CancelPromote
  BY <1>3 DEF CancelPromote, Revoke, ExecutorTypeOK, executor, CriticalJobs
<1>4. CASE CancelRestart
  BY <1>4 DEF CancelRestart, Revoke, ExecutorTypeOK, executor, CriticalJobs
<1>5. CASE LeaderChanges
  BY <1>5 DEF LeaderChanges, ExecutorTypeOK, executor, critical, Owners
<1>. QED
  BY <1>1, <1>2, <1>3, <1>4, <1>5

(* Every variable of the executor keeps its type, forced requests included. *)
THEOREM ExecutorTypes == ExecutorSpec => []ExecutorTypeOK
<1>1. ExecutorInit => ExecutorTypeOK
  <2>. SUFFICES ASSUME ExecutorInit PROVE ExecutorTypeOK
    OBVIOUS
  <2>1. leader \in Owners /\ loop \in Owners \cup {"idle"}
    BY DEF ExecutorInit, Owners
  <2>2. pc \in [Workers -> {"free", "start", "reset", "func", "process", "commit", "finish"}]
    BY DEF ExecutorInit
  <2>3. job \in [Workers -> Jobs]
    BY DEF ExecutorInit, Jobs
  <2>4. /\ cancelled \in [CriticalJobs -> BOOLEAN]
        /\ completed \in [CriticalJobs -> BOOLEAN]
    BY DEF ExecutorInit
  <2>. QED
    BY <2>1, <2>2, <2>3, <2>4 DEF ExecutorInit, ExecutorTypeOK
<1>2. ExecutorTypeOK /\ [ExecutorNext]_executorVars => ExecutorTypeOK'
  <2>1. CASE UNCHANGED executorVars
    BY <2>1 DEF executorVars, ExecutorTypeOK
  <2>. QED
    BY <2>1, WorkerStepTypes, RequestStepTypes, SchedulerStepTypes, CycleStepTypes DEF ExecutorNext
<1>. QED
  BY <1>1, <1>2, PTL DEF ExecutorSpec

-----------------------------------------------------------------------------
(* The action in progress is that of a live thread, however requests, cycles and
   tasks overlap (BusyHasWorker): reset_scheduled_action may come too early in
   cancel(), but run() always gets to its own. *)
THEOREM NeverBusyForNobody == ExecutorSpec => []BusyHasWorker
<1>1. ExecutorInit => BusyHasWorker
  BY DEF ExecutorInit, BusyHasWorker
<1>2. ExecutorTypeOK /\ BusyHasWorker /\ [ExecutorNext]_executorVars => BusyHasWorker'
  <2>. SUFFICES ASSUME ExecutorTypeOK, BusyHasWorker, [ExecutorNext]_executorVars
                PROVE  BusyHasWorker'
    OBVIOUS
  <2>. USE DEF ExecutorTypeOK, BusyHasWorker
  <2>1. ASSUME NEW w \in Workers, WorkerStep(w)
        PROVE  BusyHasWorker'
    BY <2>1 DEF WorkerStep, Begin, ResetIsCancelled, CallProcess, ProcessEnds, Commit,
                FuncReturns, Finish, executor
  <2>2. ASSUME NEW w \in Workers, StartPromote(w) \/ StartFollow(w) \/ Restart(w)
        PROVE  BusyHasWorker'
    BY <2>2 DEF StartPromote, StartFollow, Restart, Schedule
  <2>3. ASSUME NEW r \in Requests, CheckLeader(r) \/ RequestStep(r)
        PROVE  BusyHasWorker'
    BY <2>3 DEF CheckLeader, RequestStep, Cancel, CancelProcess, WaitFinished,
                ResetScheduledAction, Reinitialize, Schedule, executor
  <2>4. CASE CycleBegins \/ CycleEnds \/ CancelPromote \/ CancelRestart \/ LeaderChanges
    BY <2>4 DEF CycleBegins, CycleEnds, CancelPromote, CancelRestart, LeaderChanges, executor
  <2>5. CASE UNCHANGED executorVars
    BY <2>5 DEF executorVars
  <2>. QED
    BY <2>1, <2>2, <2>3, <2>4, <2>5 DEF ExecutorNext
<1>. QED
  BY <1>1, <1>2, ExecutorTypes, PTL DEF ExecutorSpec

-----------------------------------------------------------------------------
LEMMA WorkerStepSlot ==
    ASSUME ExecutorTypeOK, SlotInv, NEW w \in Workers, WorkerStep(w)
    PROVE  SlotInv'
<1>. USE DEF ExecutorTypeOK, SlotInv
<1>1. CASE Begin(w)
  BY <1>1 DEF Begin, critical
<1>2. CASE ResetIsCancelled(w)
  BY <1>2 DEF ResetIsCancelled, executor, critical
<1>3. CASE CallProcess(w)
  BY <1>3 DEF CallProcess, executor, critical
<1>4. CASE ProcessEnds(w)
  BY <1>4 DEF ProcessEnds, executor, critical
<1>5. CASE Commit(w)
  BY <1>5 DEF Commit, executor
<1>6. CASE FuncReturns(w)
  BY <1>6 DEF FuncReturns, executor, critical
<1>7. CASE Finish(w)
  BY <1>7 DEF Finish, ResetTask, Woken
<1>. QED
  BY <1>1, <1>2, <1>3, <1>4, <1>5, <1>6, <1>7 DEF WorkerStep

LEMMA SchedulerStepSlot ==
    ASSUME ExecutorTypeOK, SlotInv, NEW w \in Workers, StartPromote(w) \/ StartFollow(w) \/ Restart(w)
    PROVE  SlotInv'
<1>. USE DEF ExecutorTypeOK, SlotInv, Schedule
<1>1. CASE StartPromote(w)
  BY <1>1 DEF StartPromote, ResetTask
<1>2. CASE StartFollow(w)
  BY <1>2 DEF StartFollow, critical
<1>3. CASE Restart(w)
  BY <1>3 DEF Restart, critical
<1>. QED
  BY <1>1, <1>2, <1>3

(* Without force a request never gets to cancel(). *)
LEMMA RequestStepSlot ==
    ASSUME ExecutorTypeOK, SlotInv, TRUE \notin Forced,
           NEW r \in Requests, CheckLeader(r) \/ RequestStep(r)
    PROVE  SlotInv'
<1>. USE DEF ExecutorTypeOK, SlotInv
<1>1. CASE CheckLeader(r)
  BY <1>1 DEF CheckLeader, executor, critical
<1>2. CASE Reinitialize(r)
  BY <1>2 DEF Reinitialize, Schedule, executor, critical
<1>. QED
  BY <1>1, <1>2 DEF RequestStep, Cancel, CancelProcess, WaitFinished, ResetScheduledAction

LEMMA CycleStepSlot ==
    ASSUME ExecutorTypeOK, SlotInv,
           CycleBegins \/ CycleEnds \/ CancelPromote \/ CancelRestart \/ LeaderChanges
    PROVE  SlotInv'
<1>. USE DEF ExecutorTypeOK, SlotInv
<1>1. CASE CycleBegins \/ CycleEnds \/ LeaderChanges
  BY <1>1 DEF CycleBegins, CycleEnds, LeaderChanges, executor, critical
<1>2. CASE CancelPromote
  BY <1>2 DEF CancelPromote, Revoke, executor, CriticalJobs
<1>3. CASE CancelRestart
  BY <1>3 DEF CancelRestart, Revoke, executor, CriticalJobs
<1>. QED
  BY <1>1, <1>2, <1>3

(* Without forced requests, ExecInv holds: a thread owns the slot while it lives. *)
THEOREM SlotOwned ==
    ASSUME TRUE \notin Forced
    PROVE  ExecutorSpec => []ExecInv
<1>1. ExecutorInit => SlotInv
  BY DEF ExecutorInit, SlotInv
<1>2. ExecutorTypeOK /\ SlotInv /\ [ExecutorNext]_executorVars => SlotInv'
  <2>1. CASE UNCHANGED executorVars
    BY <2>1 DEF executorVars, SlotInv
  <2>. QED
    BY <2>1, WorkerStepSlot, SchedulerStepSlot, RequestStepSlot, CycleStepSlot DEF ExecutorNext
<1>. QED
  BY <1>1, <1>2, ExecutorTypes, PTL DEF ExecutorSpec, ExecInv

(* Without forced requests the functions of two tasks never overlap (OneTask). *)
THEOREM NoOverlap ==
    ASSUME TRUE \notin Forced
    PROVE  ExecutorSpec => []OneTask
<1>1. ExecInv => OneTask
  BY DEF ExecInv, SlotInv, OneTask, Running
<1>2. ExecutorSpec => []ExecInv
  BY SlotOwned
<1>. QED
  BY <1>1, <1>2, PTL

(* Without forced requests a critical task that was cancelled neither promotes nor
   starts Postgres (RevokedNeverCommits). *)
THEOREM CancelIsKept ==
    ASSUME TRUE \notin Forced
    PROVE  ExecutorSpec => []RevokedNeverCommits
<1>1. ExecInv => RevokedNeverCommits
  BY DEF ExecInv, ExecutorTypeOK, SlotInv, RevokedNeverCommits
<1>2. ExecutorSpec => []ExecInv
  BY SlotOwned
<1>. QED
  BY <1>1, <1>2, PTL
=============================================================================
