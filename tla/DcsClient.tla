----------------------------- MODULE DcsClient -----------------------------
(***************************************************************************)
(* How a request finds a server of the store: the clients of etcd (v2, v3)  *)
(* and of kubernetes keep a list of servers, turn from one that fails to    *)
(* the next, divide the time among them, reload the list when all of them   *)
(* failed, and retry until retry_timeout.                                   *)
(*                                                                          *)
(* Time is counted in seconds within a request. A server that does not      *)
(* answer refuses at once or costs its whole share of the time; the pause   *)
(* between two rounds is one second.                                        *)
(***************************************************************************)
EXTENDS Integers, FiniteSets, FiniteSetsExt

CONSTANTS
    Flavors,      \* the clients: "etcd", "etcd3", "kubernetes"
    Servers,      \* addresses of servers
    Service,      \* the address of the configuration of kubernetes
    RetryTimeout, \* retry_timeout, the time for a request
    MaxChanges    \* changes of the servers, lost answers, errors

ASSUME DcsClientAssumption ==
    /\ Flavors \subseteq {"etcd", "etcd3", "kubernetes"}
    /\ Service \in Servers /\ IsFiniteSet(Servers)
    /\ RetryTimeout \in Nat /\ RetryTimeout >= Cardinality(Servers)
    /\ MaxChanges \in Nat

VARIABLES
    flavor,
    live,         \* the servers that answer
    membership,   \* the servers that a server names when it is asked
    configured,   \* what the configuration and the DNS name
    known,        \* _machines_cache, _api_servers_cache
    initial,      \* _initial_machines_cache of etcd
    base,         \* _base_uri
    mustLoad,     \* _update_machines_cache, _update_api_servers_cache
    outdated,     \* the list is older than its TTL
    bypass,       \* kubernetes: _bypass_api_service
    forbidden,    \* kubernetes does not allow to ask for the list
    token,        \* etcd3: is the token valid
    current,      \* the request under way
    elapsed,      \* since when
    changes

dcsClientVars == <<flavor, live, membership, configured, known, initial, base,
                   mustLoad, outdated, bypass, forbidden, token, current,
                   elapsed, changes>>
servers == <<live, membership, configured>>
list == <<known, initial, base, mustLoad, outdated, bypass>>

NoRequest(result) == [step |-> result, retry |-> FALSE, list |-> {}, todo |-> {},
                      count |-> 0, share |-> 0, failed |-> FALSE, again |-> FALSE]
Idle == {"idle", "answered", "failed"}

DcsClientTypeOK ==
    /\ flavor \in Flavors
    /\ live \subseteq Servers /\ membership \subseteq Servers
    /\ configured \subseteq Servers /\ known \subseteq Servers
    /\ initial \subseteq Servers /\ base \in Servers
    /\ {mustLoad, outdated, bypass, forbidden, token} \subseteq BOOLEAN
    /\ current \in [step : Idle \cup {"start", "try", "exhausted", "again", "error", "auth"},
                    retry : BOOLEAN, list : SUBSET Servers, todo : SUBSET Servers,
                    count : 0..Cardinality(Servers), share : 0..RetryTimeout,
                    failed : BOOLEAN, again : BOOLEAN]
    /\ elapsed \in Nat
    /\ changes \in 0..MaxChanges

Lists == SUBSET Servers \ {{}}

DcsClientInit ==
    /\ flavor \in Flavors
    /\ live = Servers
    /\ configured \in IF flavor = "kubernetes" THEN {{Service}} ELSE Lists
    /\ membership \in Lists
    /\ flavor = "kubernetes" => Service \notin membership
    /\ initial = configured
    /\ known = membership
    /\ base \in membership
    /\ mustLoad = FALSE /\ outdated = FALSE
    /\ bypass = TRUE
    /\ forbidden \in IF flavor = "kubernetes" THEN BOOLEAN ELSE {FALSE}
    /\ token = TRUE
    /\ current = NoRequest("idle")
    /\ elapsed = 0
    /\ changes = 0

Change == changes < MaxChanges /\ changes' = changes + 1

-----------------------------------------------------------------------------
(* The servers and the network. *)

ServersChange ==
    /\ Change
    /\ \/ /\ \E now \in Lists : now # live /\ live' = now
          /\ UNCHANGED membership
       \/ /\ \E now \in Lists :
                /\ now # membership /\ membership' = now
                /\ flavor = "kubernetes" => Service \notin now
          /\ UNCHANGED live
    /\ UNCHANGED <<flavor, configured, list, forbidden, token, current, elapsed>>

(* A DNS record of the configuration changes. *)
DnsChanges ==
    /\ Change /\ flavor # "kubernetes"
    /\ \E now \in Lists : now # configured /\ configured' = now
    /\ UNCHANGED <<flavor, live, membership, list, forbidden, token, current, elapsed>>

TimePasses ==
    /\ ~outdated /\ current.step \in Idle
    /\ outdated' = TRUE
    /\ UNCHANGED <<flavor, servers, known, initial, base, mustLoad, bypass,
                   forbidden, token, current, elapsed, changes>>

TokenExpires ==
    /\ Change /\ flavor = "etcd3" /\ token
    /\ token' = FALSE
    /\ UNCHANGED <<flavor, servers, list, forbidden, current, elapsed>>

-----------------------------------------------------------------------------
(* The time for a server. *)

(* Mutant: the number of servers is not reduced when the time gets short. *)
AtLeastOneSecond(count, time) ==
    [nodes |-> count, share |-> IF count = 0 THEN 0 ELSE Max({1, time \div count})]

(* _calculate_timeouts: no server gets less than a second, rather some get
   none. The retries of a server divide its share further. *)
CalculateTimeouts(count, time) ==
    LET nodes == IF time >= count THEN count ELSE Max({0, time})
    IN  [nodes |-> nodes, share |-> IF nodes = 0 THEN 0 ELSE time \div nodes]

-----------------------------------------------------------------------------
(* The list of servers. The servers are asked one after another, the base
   first, while nothing else happens. *)

Share(asked) == CalculateTimeouts(Cardinality(asked), RetryTimeout).share

(* What it may cost to ask until a server answers. *)
Costs(asked) ==
    IF base \in asked /\ base \in live THEN {0}
    ELSE {0, Share(asked) * Cardinality(asked \ live)}

(* _refresh_machines_cache of a list that need not be the present one. *)
RefreshOf(asked, answered) ==
    /\ asked \cap live # {} \/ ~bypass
    /\ IF bypass /\ ~forbidden
       THEN known' = membership /\ UNCHANGED bypass
       ELSE known' = configured /\ bypass' = FALSE
    /\ base' \in IF answered \in known' THEN {answered} ELSE known'
    /\ outdated' = FALSE

RefreshFails(asked) == asked \cap live = {} /\ bypass

(* _load_machines_cache: the list of etcd is only replaced if the configured
   one has changed, that of kubernetes always. *)
Replaced == flavor = "kubernetes" \/ configured # initial

(* Mutant: the list is left alone. *)
LoadNothing ==
    /\ mustLoad' = FALSE
    /\ UNCHANGED <<known, initial, base, outdated, bypass>>

Load ==
    /\ Replaced => ~RefreshFails(configured)
    /\ IF Replaced
       THEN RefreshOf(configured, base) /\ initial' = configured
       ELSE UNCHANGED <<known, initial, base, outdated, bypass>>
    /\ mustLoad' = FALSE

LoadFails ==
    /\ Replaced /\ RefreshFails(configured)
    /\ mustLoad' = TRUE
    /\ IF flavor = "kubernetes" THEN UNCHANGED <<known, initial>>
       ELSE known' = configured /\ initial' = configured
    /\ UNCHANGED <<base, outdated, bypass>>

LoadCosts == IF Replaced THEN Costs(configured) ELSE {0}

-----------------------------------------------------------------------------
(* A request (api_execute, request). *)

Takes(costs) == \E cost \in costs : elapsed' = elapsed + cost

StartRequest(retry) ==
    /\ current.step \in Idle
    /\ current' = [NoRequest("start") EXCEPT !.retry = retry]
    /\ elapsed' = 0
    /\ UNCHANGED <<flavor, servers, list, forbidden, token, changes>>

(* The servers of the list now are tried, the base first. *)
TryAll(now) ==
    current' = [current EXCEPT !.step = "try", !.list = now, !.todo = now,
                               !.count = Cardinality(now), !.share = Share(now),
                               !.failed = FALSE]

(* The list is loaded or refreshed if it has to be. *)
UpdateList ==
    /\ current.step = "start"
    /\ \/ /\ mustLoad /\ Load
          /\ Takes(LoadCosts)
          /\ TryAll(known')
       \/ /\ mustLoad /\ LoadFails
          /\ Takes(LoadCosts)
          /\ current' = NoRequest("failed")
       \/ /\ ~mustLoad /\ outdated /\ ~RefreshFails(known)
          /\ RefreshOf(known, base)
          /\ Takes(Costs(known))
          /\ TryAll(known')
          /\ UNCHANGED <<initial, mustLoad>>
       \/ /\ ~mustLoad /\ (outdated => RefreshFails(known))
          /\ Takes(IF outdated THEN Costs(known) ELSE {0})
          /\ TryAll(known)
          /\ UNCHANGED list
    /\ UNCHANGED <<flavor, servers, forbidden, token, changes>>

NextServer == IF base \in current.todo THEN {base} ELSE current.todo

(* A server responds. After others have failed it is the new base, and is
   asked for the list, whatever its answer is. *)
RespondedBy(server) ==
    /\ current.step = "try" /\ server \in NextServer \cap live
    /\ IF ~current.failed THEN UNCHANGED <<list, elapsed>>
       ELSE \/ /\ ~RefreshFails(known) /\ RefreshOf(known, server)
               /\ Takes({0, Share(known) * Cardinality(known \ live)})
               /\ UNCHANGED <<initial, mustLoad>>
            \/ /\ RefreshFails(known)
               /\ Takes({0, Share(known) * Cardinality(known)})
               /\ base' = server
               /\ UNCHANGED <<known, initial, mustLoad, outdated, bypass>>
    /\ UNCHANGED <<flavor, servers, forbidden, token>>

Answered ==
    /\ token
    /\ \E server \in Servers : RespondedBy(server)
    /\ current' = NoRequest("answered")
    /\ UNCHANGED changes

(* The store is not ready, which Retry catches. *)
RetriableError ==
    /\ token
    /\ Change
    /\ \E server \in Servers : RespondedBy(server)
    /\ current' = IF current.retry THEN [current EXCEPT !.step = "error"]
                  ELSE NoRequest("failed")

RetryAfterError ==
    /\ current.step = "error"
    /\ IF elapsed + 1 >= RetryTimeout
       THEN current' = NoRequest("failed") /\ UNCHANGED elapsed
       ELSE /\ current' = [current EXCEPT !.step = "start"]
            /\ elapsed' = elapsed + 1
    /\ UNCHANGED <<flavor, servers, list, forbidden, token, changes>>

(* It does not answer, or its answer is lost: the next one is tried, by this
   request or, if that may not be repeated, by the next. *)
RequestFails ==
    /\ current.step = "try"
    /\ \E server \in NextServer :
          /\ IF server \in live THEN Change ELSE UNCHANGED changes
          /\ Takes({0, current.share})
          /\ LET left == current.todo \ {server} IN
             IF current.retry
             THEN /\ current' = [current EXCEPT !.todo = left, !.failed = TRUE,
                                    !.step = IF left = {} THEN "exhausted" ELSE "try"]
                  /\ UNCHANGED base
             ELSE /\ current' = NoRequest("failed")
                  /\ base' \in IF left = {} THEN {base} ELSE left
    /\ UNCHANGED <<flavor, servers, known, initial, mustLoad, outdated, bypass,
                   forbidden, token>>

(* All have failed: the list is loaded, *)
Exhausted ==
    /\ current.step = "exhausted"
    /\ Takes(LoadCosts)
    /\ \/ /\ Load
          /\ current' = [current EXCEPT !.step = "again",
                            !.list = IF Replaced THEN known' ELSE @,
                            !.count = IF Replaced /\ flavor # "kubernetes"
                                      THEN Cardinality(known') ELSE @]
       \/ /\ LoadFails
          /\ current' = [current EXCEPT !.step = "again"]
    /\ UNCHANGED <<flavor, servers, forbidden, token, changes>>

(* and after a pause as many of its servers are tried as the time allows. *)
TryAgain ==
    /\ current.step = "again"
    /\ LET plan == CalculateTimeouts(current.count, RetryTimeout - elapsed - 1) IN
       IF plan.nodes = 0
       THEN /\ current' = NoRequest("failed")
            /\ mustLoad' = TRUE
            /\ UNCHANGED elapsed
       ELSE /\ \E some \in SUBSET current.list :
                 /\ Cardinality(some) = Min({plan.nodes, Cardinality(current.list)})
                 /\ base \in current.list => base \in some
                 /\ current' = [current EXCEPT !.step = "try", !.todo = some,
                                   !.share = plan.share, !.failed = FALSE]
            /\ elapsed' = elapsed + 1
            /\ UNCHANGED mustLoad
    /\ UNCHANGED <<flavor, servers, known, initial, base, outdated, bypass,
                   forbidden, token, changes>>

(* The token is not valid any more: the client authenticates, with one attempt
   at one server, and repeats the request once (_handle_auth_errors). *)
InvalidToken ==
    /\ ~token
    /\ \E server \in Servers : RespondedBy(server)
    /\ current' = IF current.again THEN NoRequest("failed")
                  ELSE [current EXCEPT !.step = "auth"]
    /\ UNCHANGED changes

Authenticate ==
    /\ current.step = "auth"
    /\ IF base \in live
       THEN /\ token' = TRUE
            /\ current' = [current EXCEPT !.step = "start", !.again = TRUE]
            /\ UNCHANGED <<base, elapsed>>
       ELSE /\ current' = NoRequest("failed")
            /\ Takes({0, Share(known)})
            /\ base' \in IF known \subseteq {base} THEN {base} ELSE known \ {base}
            /\ UNCHANGED token
    /\ UNCHANGED <<flavor, servers, known, initial, mustLoad, outdated, bypass,
                   forbidden, changes>>

-----------------------------------------------------------------------------
RequestGoesOn ==
    \/ UpdateList \/ Answered \/ RetriableError \/ RetryAfterError \/ RequestFails
    \/ Exhausted \/ TryAgain \/ InvalidToken \/ Authenticate

DcsClientNext ==
    \/ \E retry \in BOOLEAN : StartRequest(retry)
    \/ RequestGoesOn
    \/ ServersChange \/ DnsChanges \/ TimePasses \/ TokenExpires

DcsClientSpec == DcsClientInit /\ [][DcsClientNext]_dcsClientVars

(* Requests come to an end, and the HA loop asks again and again with a retry
   (get_cluster). *)
DcsClientFairSpec ==
    /\ DcsClientSpec
    /\ WF_dcsClientVars(RequestGoesOn)
    /\ SF_dcsClientVars(StartRequest(TRUE))

-----------------------------------------------------------------------------
(* Properties. *)

(* However often the servers change, a request ends: it takes less than four
   times retry_timeout. It may take that long, since the list is loaded before
   and refreshed after it without a look at the time that is left, and the
   last repetition starts with a full retry_timeout. An etcd3 client whose token
   is not valid any more tries all that a second time when it has
   authenticated: less than six times. *)
RequestIsBounded ==
    elapsed < (IF flavor = "etcd3" THEN 6 ELSE 4) * RetryTimeout

(* Once the servers stay as they are the client is answered again and again,
   unless all the servers that an etcd client knows are gone and its
   configuration names the same ones as when it started: only then the list
   is never replaced. *)
ListIsLost == flavor # "kubernetes" /\ known \cap live = {} /\ configured = initial

NothingToAsk == configured \cap live = {} \/ membership \cap live = {}

ClientRecovers ==
    []<>(current.step = "answered") \/ <>[]ListIsLost \/ <>[]NothingToAsk

(* What the docstring of _load_machines_cache says: the list is filled from
   scratch when all servers failed, so a client recovers if the configuration
   still names a server that answers. *)
ClientRecoversFromConfig ==
    []<>(current.step = "answered") \/ <>[]NothingToAsk
=============================================================================
