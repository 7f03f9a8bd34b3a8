------------------------------- MODULE Gossip -------------------------------
(***************************************************************************)
(* Peer advertisements: PeerGossipManager (bootstrap/src/gossip), the      *)
(* GossipedPeerCache, and the advertise and peers endpoints of the         *)
(* guardian node API (bootstrap/src/guardian_node_api.rs).                 *)
(*                                                                         *)
(* A process has two caches: the one its API fills from POSTed             *)
(* advertisements and serves to peers, and the one its manager fills from  *)
(* the lists it pulls.  Handlers and the pull loop are cut where they      *)
(* await: the network and the verification of the evidence.  Time is       *)
(* counted in ticks and every node reads a clock of its own.               *)
(***************************************************************************)
EXTENDS Naturals, FiniteSets, FiniteSetsExt

CONSTANTS
    Peers,                       \* node ids
    RegistryNodes,               \* nodes the measurement registry lists
    Reachable,                   \* pairs <<n, m>> such that n may attest m
    Skew,                        \* Skew[n]: how far the clock of n is ahead
    Hour,                        \* 3600 s
    max_advertisement_age_hours, \* 24 in GossipConfig
    FutureTolerance,             \* 300 s
    max_peers_per_message,       \* 100 in GossipConfig
    MaxTime,                     \* bound on the ticks
    MaxBoots,                    \* MaxBoots[n]: bound on the starts of n
    MaxRevoked                   \* bound on revocations of trust

ASSUME GossipAssumption ==
    /\ IsFiniteSet(Peers)
    /\ RegistryNodes \subseteq Peers /\ RegistryNodes # {}
    /\ Reachable \subseteq Peers \X Peers
    /\ Skew \in [Peers -> Nat] /\ MaxBoots \in [Peers -> Nat]
    /\ {Hour, max_peers_per_message} \subseteq Nat \ {0}
    /\ {max_advertisement_age_hours, FutureTolerance, MaxRevoked} \subseteq Nat
    /\ MaxTime \in Nat \ {0}

VARIABLES
    network,     \* "reliable", or "faulty": posts get lost and checks fail
    clock,       \* true time
    up,          \* up[n]: how far the process of n got
    toSend,      \* toSend[n]: registry nodes initial_advertise has yet to reach
    own,         \* own[n]: timestamp of the advertisement of this process, 0 if none
    wire,        \* POSTed advertisements not handled yet
    verifying,   \* verifying[n]: advertisements whose handler awaits verify_evidence
    apiCache,    \* apiCache[n][k]: timestamp of k's entry in the API's cache
    mgrCache,    \* mgrCache[n][k]: the same for the manager's cache
    pull,        \* pull[n]: where pull_peer_list stands
    peersOf,     \* peersOf[n]: trusted nodes of n
    left,        \* starts and revocations that may still happen
    made,        \* history: made[k], timestamps of k's advertisements
    posted,      \* history: posts this process of the receiver got or may still get
    accepted     \* history: accepted[n], what this process answered accepted = true

procVars == <<up, toSend, own, pull>>
histVars == <<made, posted, accepted>>
gossipVars == <<network, clock, procVars, wire, verifying, apiCache, mgrCache,
                peersOf, left, histVars>>

Stamp == UNION {1..(MaxTime + Skew[n]) : n \in Peers}
PeerAdvertisement == [node : Peers, timestamp : Stamp]
Post == [to : Peers, ad : PeerAdvertisement]
EmptyCache == [k \in Peers |-> 0]
Idle == [pc |-> "idle", peer |-> 0, ads |-> {}]
Entries(cache) == {[node |-> k, timestamp |-> cache[k]] : k \in {k \in Peers : cache[k] > 0}}

GossipInit ==
    /\ network \in {"reliable", "faulty"}
    /\ clock = 1
    /\ up = [n \in Peers |-> "down"]
    /\ toSend = [n \in Peers |-> {}]
    /\ own = [n \in Peers |-> 0]
    /\ wire = {}
    /\ verifying = [n \in Peers |-> {}]
    /\ apiCache = [n \in Peers |-> EmptyCache]
    /\ mgrCache = [n \in Peers |-> EmptyCache]
    /\ pull = [n \in Peers |-> Idle]
    /\ peersOf = [n \in Peers |-> {}]
    /\ left = [boot |-> MaxBoots, revoke |-> MaxRevoked]
    /\ made = [k \in Peers |-> {}]
    /\ posted = {}
    /\ accepted = [n \in Peers |-> {}]

GossipTypeOK ==
    /\ network \in {"reliable", "faulty"}
    /\ clock \in 1..MaxTime
    /\ up \in [Peers -> {"down", "api", "advertising", "running"}]
    /\ toSend \in [Peers -> SUBSET RegistryNodes]
    /\ own \in [Peers -> Stamp \union {0}]
    /\ wire \subseteq posted /\ posted \subseteq Post
    /\ verifying \in [Peers -> SUBSET PeerAdvertisement]
    /\ apiCache \in [Peers -> [Peers -> Stamp \union {0}]]
    /\ mgrCache \in [Peers -> [Peers -> Stamp \union {0}]]
    /\ pull \in [Peers -> [pc : {"idle", "picked", "asked", "list"},
                           peer : Peers \union {0}, ads : SUBSET PeerAdvertisement]]
    /\ \A n \in Peers : Cardinality(pull[n].ads) <= max_peers_per_message
    /\ peersOf \in [Peers -> SUBSET Peers]
    /\ left \in [boot : [Peers -> Nat], revoke : Nat]
    /\ made \in [Peers -> SUBSET Stamp]
    /\ accepted \in [Peers -> SUBSET PeerAdvertisement]

-----------------------------------------------------------------------------
\* What the process of n reads from its clock.
Now(n) == clock + Skew[n]

\* PeerAdvertisement::new: addresses, hash and evidence follow from the node.
create_advertisement(n) == [node |-> n, timestamp |-> Now(n)]

\* Mutant: a timestamp may be anything.
validate_format_NoClock(n, ad) == TRUE

\* validate_format: an advertisement may be a little ahead of the clock.  Ids
\* and hashes are well formed, which a genuine sender guarantees.
validate_format(n, ad) == ad.timestamp <= Now(n) + FutureTolerance

\* The age in whole hours, where a timestamp ahead of the clock has age 0.
AgeHours(n, ad) ==
    (IF Now(n) >= ad.timestamp THEN Now(n) - ad.timestamp ELSE 0) \div Hour

\* Mutant: an advertisement of just the maximum age is too old.
FreshEnough_Strict(n, ad) == AgeHours(n, ad) < max_advertisement_age_hours

\* Whole hours up to the maximum.
FreshEnough(n, ad) == AgeHours(n, ad) <= max_advertisement_age_hours

\* The outcomes of verify_evidence for genuine evidence.
verify_evidence == IF network = "reliable" THEN {TRUE} ELSE BOOLEAN

\* Mutant: the last one to come is kept.
add_verified_Latest(cache, n, ad) ==
    [cache EXCEPT ![n][ad.node] = ad.timestamp]

\* add_verified: only a newer advertisement replaces an entry.
add_verified(cache, n, ad) ==
    [cache EXCEPT ![n][ad.node] = IF @ >= ad.timestamp THEN @ ELSE ad.timestamp]

\* The process ends: everything it had is gone, requests in progress included.
EndProcess(n) ==
    /\ up' = [up EXCEPT ![n] = "down"]
    /\ toSend' = [toSend EXCEPT ![n] = {}]
    /\ own' = [own EXCEPT ![n] = 0]
    /\ verifying' = [verifying EXCEPT ![n] = {}]
    /\ apiCache' = [apiCache EXCEPT ![n] = EmptyCache]
    /\ mgrCache' = [mgrCache EXCEPT ![n] = EmptyCache]
    /\ pull' = [pull EXCEPT ![n] = Idle]
    /\ peersOf' = [peersOf EXCEPT ![n] = {}]
    /\ posted' = wire \union {p \in posted : p.to # n}
    /\ accepted' = [accepted EXCEPT ![n] = {}]
    /\ UNCHANGED <<network, clock, wire, left, made>>

-----------------------------------------------------------------------------
\* Starting a node, and initial_advertise.

\* main starts the API servers, with an empty cache.
StartApi(n) ==
    /\ up[n] = "down" /\ left.boot[n] > 0
    /\ up' = [up EXCEPT ![n] = "api"]
    /\ left' = [left EXCEPT !.boot[n] = @ - 1]
    /\ UNCHANGED <<network, clock, toSend, own, pull, wire, verifying, apiCache, mgrCache,
                   peersOf, histVars>>

\* No answer from the measurement registry, or an empty one, ends the process.
RegistryUnusable(n) ==
    /\ up[n] = "api" /\ network = "faulty"
    /\ EndProcess(n)

\* Evidence cannot be generated: the node runs on without having advertised.
AdvertiseFails(n) ==
    /\ up[n] = "api" /\ network = "faulty"
    /\ up' = [up EXCEPT ![n] = "running"]
    /\ UNCHANGED <<network, clock, toSend, own, pull, wire, verifying, apiCache, mgrCache,
                   peersOf, left, histVars>>

\* One advertisement, stamped now, for all the others.  A restart takes
\* longer than the second that timestamps are counted in.
initial_advertise(n) ==
    LET others == RegistryNodes \ {n}
        stamp == create_advertisement(n).timestamp
    IN
    /\ up[n] = "api" /\ stamp \notin made[n]
    /\ up' = [up EXCEPT ![n] = IF others = {} THEN "running" ELSE "advertising"]
    /\ toSend' = [toSend EXCEPT ![n] = others]
    /\ own' = [own EXCEPT ![n] = stamp]
    /\ made' = [made EXCEPT ![n] = @ \union {stamp}]
    /\ UNCHANGED <<network, clock, pull, wire, verifying, apiCache, mgrCache, peersOf, left,
                   posted, accepted>>

\* send_advertisement_to_addr: the outcome is only logged.
send_advertisement_to_addr(n, m) ==
    LET post == [to |-> m, ad |-> [node |-> n, timestamp |-> own[n]]] IN
    /\ up[n] = "advertising" /\ m \in toSend[n]
    /\ toSend' = [toSend EXCEPT ![n] = @ \ {m}]
    /\ up' = [up EXCEPT ![n] = IF toSend[n] = {m} THEN "running" ELSE @]
    /\ wire' = wire \union {post}
    /\ posted' = posted \union {post}
    /\ UNCHANGED <<network, clock, own, pull, verifying, apiCache, mgrCache, peersOf, left,
                   made, accepted>>

\* Nobody listens, or the network loses the request.
PostFails(p) ==
    /\ p \in wire
    /\ network = "faulty" \/ up[p.to] = "down"
    /\ wire' = wire \ {p}
    /\ posted' = posted \ {p}
    /\ UNCHANGED <<network, clock, procVars, verifying, apiCache, mgrCache, peersOf, left, made, accepted>>

-----------------------------------------------------------------------------
\* The guardian node API.

\* advertise_handler up to the await: format, then age.
advertise_handler(p) ==
    /\ p \in wire /\ up[p.to] # "down"
    /\ wire' = wire \ {p}
    /\ verifying' = IF validate_format(p.to, p.ad) /\ FreshEnough(p.to, p.ad)
                    THEN [verifying EXCEPT ![p.to] = @ \union {p.ad}]
                    ELSE verifying
    /\ UNCHANGED <<network, clock, procVars, apiCache, mgrCache, peersOf, left, histVars>>

\* advertise_handler after the await; accepted = true also when the cache
\* already had a newer entry.
AdvertiseAnswered(n, ad, ok) ==
    LET accept == ok /\ ad.node # n IN
    /\ ad \in verifying[n] /\ ok \in verify_evidence
    /\ verifying' = [verifying EXCEPT ![n] = @ \ {ad}]
    /\ apiCache' = IF accept THEN add_verified(apiCache, n, ad) ELSE apiCache
    /\ accepted' = IF accept THEN [accepted EXCEPT ![n] = @ \union {ad}] ELSE accepted
    /\ UNCHANGED <<network, clock, procVars, wire, mgrCache, peersOf, left, made, posted>>

\* Mutant: the whole cache is sent.
peers_handler_All(m) == {Entries(apiCache[m])}

\* peers_handler: the first entries of a map without an order.
peers_handler(m) ==
    LET all == Entries(apiCache[m])
        size == Min({Cardinality(all), max_peers_per_message})
    IN  kSubset(size, all)

-----------------------------------------------------------------------------
\* The pull loop.

SetPull(n, p) == pull' = [pull EXCEPT ![n] = p]
PullUnchanged == <<network, clock, up, toSend, own, wire, verifying, apiCache, peersOf, left, histVars>>

\* pull_peer_list: a random trusted peer; the node itself is no use.
PickPeer(n, m) ==
    /\ up[n] = "running" /\ pull[n].pc = "idle"
    /\ m \in peersOf[n] \ {n}
    /\ SetPull(n, [pc |-> "picked", peer |-> m, ads |-> {}])
    /\ UNCHANGED <<PullUnchanged, mgrCache>>

\* The registry is asked again; an entry revoked since then is a panic, which
\* ends the process (panic = "abort").
GetApiAddr(n) ==
    /\ pull[n].pc = "picked"
    /\ \/ /\ pull[n].peer \in peersOf[n]
          /\ SetPull(n, [pull[n] EXCEPT !.pc = "asked"])
          /\ UNCHANGED <<PullUnchanged, mgrCache>>
       \/ /\ pull[n].peer \notin peersOf[n]
          /\ EndProcess(n)

\* The peer answers with what its API cache has; no answer ends the round.
ReceivePeerList(n) ==
    LET m == pull[n].peer IN
    /\ pull[n].pc = "asked"
    /\ \/ /\ up[m] # "down"
          /\ \E list \in peers_handler(m) :
                SetPull(n, IF list = {} THEN Idle ELSE [pc |-> "list", peer |-> m, ads |-> list])
       \/ /\ network = "faulty" \/ up[m] = "down"
          /\ SetPull(n, Idle)
    /\ UNCHANGED <<PullUnchanged, mgrCache>>

\* The advertisement is dealt with; after the last one the round ends.
Handled(n, ad) ==
    SetPull(n, IF pull[n].ads = {ad} THEN Idle
               ELSE [pull[n] EXCEPT !.pc = "list", !.ads = @ \ {ad}])

\* Mutant: every well-formed entry of a list is stored.
validate_and_add_advertisement_Blind(n, ad) ==
    /\ pull[n].pc = "list" /\ ad \in pull[n].ads
    /\ mgrCache' = IF validate_format(n, ad) THEN [mgrCache EXCEPT ![n][ad.node] = ad.timestamp]
                   ELSE mgrCache
    /\ Handled(n, ad)
    /\ UNCHANGED PullUnchanged

\* Mutant: what was pulled goes to the cache the API serves.
validate_and_add_advertisement_Shared(n, ad) ==
    /\ pull[n].pc = "list" /\ ad \in pull[n].ads
    /\ apiCache' = IF validate_format(n, ad) /\ ad.node # n THEN add_verified(apiCache, n, ad)
                   ELSE apiCache
    /\ Handled(n, ad)
    /\ UNCHANGED <<network, clock, up, toSend, own, wire, verifying, mgrCache, peersOf, left, histVars>>

\* Steps 1 to 4 of validate_and_add_advertisement.
NeedsVerification(n, ad) ==
    /\ validate_format(n, ad)
    /\ FreshEnough(n, ad)
    /\ ad.node # n
    /\ mgrCache[n][ad.node] < ad.timestamp

\* The rest of it.  It is one step, its await included: no other task touches the
\* manager's cache.
validate_and_add_advertisement(n, ad) ==
    /\ pull[n].pc = "list" /\ ad \in pull[n].ads
    /\ \/ /\ ~NeedsVerification(n, ad)
          /\ Handled(n, ad)
          /\ UNCHANGED mgrCache
       \/ /\ NeedsVerification(n, ad)
          /\ \E ok \in verify_evidence :
                /\ mgrCache' = IF ok THEN add_verified(mgrCache, n, ad) ELSE mgrCache
                /\ Handled(n, ad)
    /\ UNCHANGED PullUnchanged

-----------------------------------------------------------------------------
\* The environment.

\* Peers attest one another; nothing but the pull loop depends on it here.
PeerAttested(n, m) ==
    /\ up[n] # "down" /\ <<n, m>> \in Reachable /\ m \notin peersOf[n]
    /\ peersOf' = [peersOf EXCEPT ![n] = @ \union {m}]
    /\ UNCHANGED <<network, clock, procVars, wire, verifying, apiCache, mgrCache, left, histVars>>

PeerRevoked(n, m) ==
    /\ left.revoke > 0 /\ m \in peersOf[n]
    /\ left' = [left EXCEPT !.revoke = @ - 1]
    /\ peersOf' = [peersOf EXCEPT ![n] = @ \ {m}]
    /\ UNCHANGED <<network, clock, procVars, wire, verifying, apiCache, mgrCache, histVars>>

ProcessCrash(n) ==
    /\ up[n] # "down" /\ left.boot[n] > 0
    /\ EndProcess(n)

\* Where the network is reliable, initial_advertise and a request take less
\* than a tick.
Tick ==
    /\ clock < MaxTime
    /\ network = "faulty" \/ (wire = {} /\ \A n \in Peers : toSend[n] = {} /\ verifying[n] = {})
    /\ clock' = clock + 1
    /\ UNCHANGED <<network, procVars, wire, verifying, apiCache, mgrCache, peersOf, left, histVars>>

GossipStep(n) ==
    \/ initial_advertise(n)
    \/ \E m \in Peers : send_advertisement_to_addr(n, m)
    \/ \E m \in Peers : PickPeer(n, m)
    \/ GetApiAddr(n)
    \/ ReceivePeerList(n)
    \/ \E ad \in pull[n].ads : validate_and_add_advertisement(n, ad)

ApiStep(n) ==
    \/ \E p \in wire : p.to = n /\ (advertise_handler(p) \/ PostFails(p))
    \/ \E ad \in verifying[n] : \E ok \in BOOLEAN : AdvertiseAnswered(n, ad, ok)

GossipNext ==
    \/ \E n \in Peers : \/ GossipStep(n) \/ ApiStep(n)
                        \/ StartApi(n) \/ RegistryUnusable(n) \/ AdvertiseFails(n)
                        \/ ProcessCrash(n)
    \/ \E n, m \in Peers : PeerAttested(n, m) \/ PeerRevoked(n, m)
    \/ Tick

GossipSpec == GossipInit /\ [][GossipNext]_gossipVars

\* The runtime keeps running the handlers of a process that is up.  Nothing is
\* asked of the loops that advertise and pull.
GossipFairness == \A n \in Peers : WF_gossipVars(ApiStep(n))

-----------------------------------------------------------------------------
ApiPromise == INSTANCE AdvertCache WITH Nodes <- Peers, Time <- Stamp, known <- apiCache
MgrPromise == INSTANCE AdvertCache WITH Nodes <- Peers, Time <- Stamp, known <- mgrCache

\* add_verified and the checks in front of it implement AdvertCache, both for the
\* cache that the API fills and for the one that the pull loop fills, where lists
\* contain the node's own advertisement and entries it already has: whatever is
\* lost, delayed, reordered or pulled from a peer that has old entries.
CachesKeepPromise == ApiPromise!Spec /\ MgrPromise!Spec

\* Whatever advertise_handler accepted is in the API cache or was superseded
\* there by a later advertisement of that node: two handlers for two starts of
\* a node may finish in either order.
AcceptedIsCovered ==
    \A n \in Peers : \A ad \in accepted[n] : apiCache[n][ad.node] >= ad.timestamp

\* No cache holds an advertisement from further in the future than the
\* tolerance of validate_format, whatever the clocks of the others say.
NothingFromTheFuture ==
    \A n, k \in Peers : apiCache[n][k] <= Now(n) + FutureTolerance
                        /\ mgrCache[n][k] <= Now(n) + FutureTolerance

\* What a node serves to its peers was sent to it by the node it is about:
\* lists that were pulled stay in the manager's cache (gossip/manager.rs:68)
\* and are not passed on.
ServedWasPosted ==
    \A n \in Peers : \A ad \in Entries(apiCache[n]) : [to |-> n, ad |-> ad] \in posted

\* On a reliable network the advertisement a node sends to a running peer is
\* in the API cache of that peer in the end, when the two clocks agree well
\* enough.
AdvertisementArrives ==
    []<>(network = "reliable" =>
            \A p \in posted :
                LET k == p.ad.node IN
                (/\ up[p.to] # "down" /\ up[k] # "down" /\ p.ad.timestamp = own[k]
                 /\ Skew[k] <= Skew[p.to] + FutureTolerance
                 /\ Skew[p.to] < Skew[k] + Hour * (max_advertisement_age_hours + 1))
                => apiCache[p.to][k] >= own[k])
=============================================================================
