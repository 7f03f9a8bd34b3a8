---------------------------- MODULE GossipProofs ----------------------------
(***************************************************************************)
(* Theorems about Gossip, for every set of nodes, every skew of their      *)
(* clocks, every limit of GossipConfig and every number of restarts.       *)
(***************************************************************************)
EXTENDS Gossip, TLAPS, FiniteSetTheorems

\* A record of the pull loop: its list is finite, and its peer is known.
PullType(p) ==
    /\ p \in [pc : {"idle", "picked", "asked", "list"},
              peer : Peers \union {0}, ads : SUBSET PeerAdvertisement]
    /\ p.pc # "idle" => p.peer \in Peers
    /\ IsFiniteSet(p.ads) /\ Cardinality(p.ads) <= max_peers_per_message

\* The type invariant, with what the pull loop and initial_advertise rely on.
TypeInv ==
    /\ GossipTypeOK
    /\ \A n \in Peers : PullType(pull[n])
    /\ \A n \in Peers : toSend[n] # {} => own[n] \in Stamp

\* Where an advertisement can be found, and that it is one its author made.  A
\* post is handled once: what is being verified or cached is not on the wire.
PostInv ==
    /\ \A p \in posted : p.ad.timestamp \in made[p.ad.node]
    /\ \A n \in Peers : \A m \in toSend[n] :
          /\ own[n] \in made[n]
          /\ [to |-> m, ad |-> [node |-> n, timestamp |-> own[n]]] \notin posted
    /\ \A n \in Peers : \A ad \in verifying[n] :
          [to |-> n, ad |-> ad] \in posted \ wire
    /\ \A n, k \in Peers : apiCache[n][k] > 0 =>
          [to |-> n, ad |-> [node |-> k, timestamp |-> apiCache[n][k]]] \in posted \ wire

\* The same for the lists that are pulled.
ListInv ==
    /\ \A n \in Peers : \A ad \in pull[n].ads : ad.timestamp \in made[ad.node]
    /\ \A n, k \in Peers : mgrCache[n][k] > 0 => mgrCache[n][k] \in made[k]

\* What passed validate_format passes it at every later time.
ClockInv ==
    /\ \A n \in Peers : \A ad \in verifying[n] : validate_format(n, ad)
    /\ NothingFromTheFuture

GossipInv == PostInv /\ ListInv /\ ClockInv /\ AcceptedIsCovered

-----------------------------------------------------------------------------
\* Every reading of a clock is a timestamp, and timestamps are positive.
LEMMA StampFacts ==
    /\ Stamp \subseteq Nat \ {0}
    /\ \A n \in Peers : clock \in 1..MaxTime => Now(n) \in Stamp
<1>1. ASSUME NEW n \in Peers PROVE MaxTime + Skew[n] \in Nat
  BY GossipAssumption
<1>2. Stamp \subseteq Nat \ {0}
  BY <1>1 DEF Stamp
<1>3. ASSUME NEW n \in Peers, clock \in 1..MaxTime PROVE Now(n) \in Stamp
  <2>1. Now(n) \in 1..(MaxTime + Skew[n])
    BY <1>1, <1>3, GossipAssumption DEF Now
  <2>. QED  BY <2>1 DEF Stamp
<1>. QED  BY <1>2, <1>3

\* The entries of a cache are well formed and there are finitely many.
LEMMA EntriesFacts ==
    ASSUME NEW cache \in [Peers -> Stamp \union {0}]
    PROVE  Entries(cache) \subseteq PeerAdvertisement /\ IsFiniteSet(Entries(cache))
<1>. DEFINE D == {k \in Peers : cache[k] > 0}
            f == [k \in D |-> [node |-> k, timestamp |-> cache[k]]]
<1>1. Entries(cache) \subseteq PeerAdvertisement
  BY StampFacts DEF Entries, PeerAdvertisement
<1>2. IsFiniteSet(D)
  BY FS_Subset, GossipAssumption
<1>3. Entries(cache) = {f[k] : k \in D}
  BY Zenon DEF Entries
<1>4. f \in Surjection(D, {f[k] : k \in D})
  BY DEF Surjection
<1>5. IsFiniteSet({f[k] : k \in D})
  BY <1>2, <1>4, FS_Surjection
<1>. QED  BY <1>1, <1>3, <1>5, Zenon

\* peers_handler sends a part of the cache, no larger than a message may be.
LEMMA ListFacts ==
    ASSUME TypeInv, NEW m \in Peers, NEW list \in peers_handler(m)
    PROVE  /\ list \subseteq Entries(apiCache[m]) /\ list \subseteq PeerAdvertisement
           /\ IsFiniteSet(list) /\ Cardinality(list) <= max_peers_per_message
<1>. DEFINE all == Entries(apiCache[m])
            size == Min({Cardinality(all), max_peers_per_message})
<1>1. apiCache[m] \in [Peers -> Stamp \union {0}]
  BY DEF TypeInv, GossipTypeOK
<1>2. all \subseteq PeerAdvertisement /\ IsFiniteSet(all)
  BY <1>1, EntriesFacts
<1>3. list \subseteq all /\ Cardinality(list) = size
  BY DEF peers_handler, kSubset
<1>4. IsFiniteSet(list)
  BY <1>2, <1>3, FS_Subset
<1>5. Cardinality(all) \in Nat /\ max_peers_per_message \in Nat
  BY <1>2, FS_CardinalityType, GossipAssumption
<1>6. size <= max_peers_per_message
  <2>. DEFINE S == {Cardinality(all), max_peers_per_message}
  <2>1. \E x \in S : \A y \in S : x <= y
    BY <1>5
  <2>2. Min(S) \in S /\ \A y \in S : Min(S) <= y
    BY <2>1 DEF Min
  <2>. QED  BY <2>2
<1>. QED  BY <1>2, <1>3, <1>4, <1>6

-----------------------------------------------------------------------------
\* A record of the pull loop without a list is well typed.
LEMMA EmptyListType ==
    ASSUME NEW pc \in {"idle", "picked", "asked", "list"}, NEW m \in Peers \union {0},
           pc # "idle" => m \in Peers
    PROVE  PullType([pc |-> pc, peer |-> m, ads |-> {}])
<1>1. IsFiniteSet({}) /\ Cardinality({}) = 0
  BY FS_EmptySet
<1>2. 0 <= max_peers_per_message
  BY GossipAssumption
<1>. QED  BY <1>1, <1>2 DEF PullType

\* So is the one between two rounds.
LEMMA IdleType == PullType(Idle)
BY EmptyListType DEF Idle

\* Taking an entry off the list keeps the record well typed.
LEMMA HandledType ==
    ASSUME TypeInv, NEW n \in Peers, NEW ad \in pull[n].ads, pull[n].pc = "list", Handled(n, ad)
    PROVE  \E p : PullType(p) /\ pull' = [pull EXCEPT ![n] = p]
<1>. DEFINE q == [pull[n] EXCEPT !.pc = "list", !.ads = @ \ {ad}]
<1>1. PullType(pull[n])
  BY DEF TypeInv
<1>2. /\ q \in [pc : {"idle", "picked", "asked", "list"},
                peer : Peers \union {0}, ads : SUBSET PeerAdvertisement]
      /\ q.ads = pull[n].ads \ {ad} /\ q.peer = pull[n].peer
  BY <1>1, Zenon DEF PullType
<1>3. IsFiniteSet(pull[n].ads \ {ad})
  BY <1>1, FS_Subset DEF PullType
<1>4. Cardinality(pull[n].ads \ {ad}) <= max_peers_per_message
  <2>1. Cardinality(pull[n].ads \ {ad}) <= Cardinality(pull[n].ads)
    BY <1>1, FS_Subset DEF PullType
  <2>2. Cardinality(pull[n].ads \ {ad}) \in Nat /\ Cardinality(pull[n].ads) \in Nat
    BY <1>1, <1>3, FS_CardinalityType DEF PullType
  <2>. QED  BY <1>1, <2>1, <2>2, GossipAssumption DEF PullType
<1>5. PullType(q)
  BY <1>1, <1>2, <1>3, <1>4 DEF PullType
<1>6. pull' = [pull EXCEPT ![n] = Idle] \/ pull' = [pull EXCEPT ![n] = q]
  BY Zenon DEF Handled, SetPull
<1>. QED  BY <1>5, <1>6, IdleType

\* pull stays well typed when a well typed record replaces one of it.
LEMMA PullTypeOK ==
    ASSUME TypeInv, NEW n \in Peers, NEW p, PullType(p), pull' = [pull EXCEPT ![n] = p]
    PROVE  /\ pull' \in [Peers -> [pc : {"idle", "picked", "asked", "list"},
                                   peer : Peers \union {0}, ads : SUBSET PeerAdvertisement]]
           /\ \A m \in Peers : PullType(pull'[m])
           /\ \A m \in Peers : Cardinality(pull'[m].ads) <= max_peers_per_message
BY DEF TypeInv, GossipTypeOK, PullType

\* A process that ends leaves every variable well typed.
LEMMA EndProcessType ==
    ASSUME TypeInv, NEW n \in Peers, EndProcess(n)
    PROVE  TypeInv'
<1>1. PullType(Idle)
  BY IdleType
<1>2. pull' = [pull EXCEPT ![n] = Idle]
  BY DEF EndProcess
<1>3. EmptyCache \in [Peers -> Stamp \union {0}]
  BY DEF EmptyCache
<1>. QED
  BY <1>1, <1>2, <1>3, PullTypeOK, Zenon DEF EndProcess, TypeInv, GossipTypeOK

\* add_verified keeps a cache well typed.
LEMMA AddVerifiedType ==
    ASSUME NEW cache \in [Peers -> [Peers -> Stamp \union {0}]], NEW n \in Peers,
           NEW ad \in PeerAdvertisement
    PROVE  add_verified(cache, n, ad) \in [Peers -> [Peers -> Stamp \union {0}]]
BY DEF add_verified, PeerAdvertisement

\* Every step keeps the variables well typed.
LEMMA TypeStep == TypeInv /\ [GossipNext]_gossipVars => TypeInv'
<1>. SUFFICES ASSUME TypeInv, [GossipNext]_gossipVars PROVE TypeInv'
  OBVIOUS
<1>. USE DEF histVars, procVars
<1>1. ASSUME NEW n \in Peers, initial_advertise(n) PROVE TypeInv'
  <2>1. Now(n) \in Stamp
    BY StampFacts DEF TypeInv, GossipTypeOK
  <2>. QED
    BY <1>1, <2>1 DEF initial_advertise, create_advertisement, TypeInv, GossipTypeOK
<1>2. ASSUME NEW n \in Peers, NEW m \in Peers, send_advertisement_to_addr(n, m) PROVE TypeInv'
  <2>1. own[n] \in Stamp
    BY <1>2 DEF send_advertisement_to_addr, TypeInv
  <2>. QED
    BY <1>2, <2>1, SMTT(30) DEF send_advertisement_to_addr, TypeInv, GossipTypeOK, Post, PeerAdvertisement
<1>3. ASSUME NEW n \in Peers, NEW m \in Peers, PickPeer(n, m) PROVE TypeInv'
  BY <1>3, EmptyListType, PullTypeOK, Zenon DEF PickPeer, SetPull, PullUnchanged, TypeInv, GossipTypeOK
<1>4. ASSUME NEW n \in Peers, GetApiAddr(n) PROVE TypeInv'
  <2>1. ASSUME SetPull(n, [pull[n] EXCEPT !.pc = "asked"]), UNCHANGED <<PullUnchanged, mgrCache>>
        PROVE  TypeInv'
    <3>1. PullType([pull[n] EXCEPT !.pc = "asked"])
      <4>1. PullType(pull[n]) /\ pull[n].pc = "picked"
        BY <1>4 DEF GetApiAddr, TypeInv
      <4>. QED  BY <4>1 DEF PullType
    <3>. QED  BY <2>1, <3>1, PullTypeOK, Zenon DEF SetPull, PullUnchanged, TypeInv, GossipTypeOK
  <2>. QED  BY <1>4, <2>1, EndProcessType DEF GetApiAddr
<1>5. ASSUME NEW n \in Peers, ReceivePeerList(n) PROVE TypeInv'
  <2>1. pull[n].peer \in Peers
    BY <1>5 DEF ReceivePeerList, TypeInv, PullType
  <2>2. \E p : PullType(p) /\ pull' = [pull EXCEPT ![n] = p]
    <3>1. ASSUME NEW list \in peers_handler(pull[n].peer)
          PROVE  PullType([pc |-> "list", peer |-> pull[n].peer, ads |-> list])
      BY <2>1, ListFacts DEF PullType
    <3>. QED  BY <1>5, <3>1, IdleType DEF ReceivePeerList, SetPull
  <2>. QED
    BY <1>5, <2>2, PullTypeOK, Zenon DEF ReceivePeerList, PullUnchanged, TypeInv, GossipTypeOK
<1>6. ASSUME NEW n \in Peers, NEW ad \in pull[n].ads, validate_and_add_advertisement(n, ad)
      PROVE  TypeInv'
  <2>1. pull[n].pc = "list" /\ Handled(n, ad)
    BY <1>6 DEF validate_and_add_advertisement
  <2>2. \E p : PullType(p) /\ pull' = [pull EXCEPT ![n] = p]
    BY <2>1, HandledType
  <2>3. ad \in PeerAdvertisement
    BY DEF TypeInv, GossipTypeOK
  <2>4. mgrCache' = mgrCache \/ mgrCache' = add_verified(mgrCache, n, ad)
    BY <1>6 DEF validate_and_add_advertisement
  <2>5. mgrCache' \in [Peers -> [Peers -> Stamp \union {0}]]
    <3>1. mgrCache \in [Peers -> [Peers -> Stamp \union {0}]]
      BY DEF TypeInv, GossipTypeOK
    <3>2. add_verified(mgrCache, n, ad) \in [Peers -> [Peers -> Stamp \union {0}]]
      BY <3>1, <2>3, AddVerifiedType
    <3>. QED  BY <3>1, <3>2, <2>4
  <2>. QED
    BY <1>6, <2>2, <2>5, PullTypeOK, Zenon
       DEF validate_and_add_advertisement, PullUnchanged, TypeInv, GossipTypeOK
<1>7. ASSUME NEW p \in wire, advertise_handler(p) PROVE TypeInv'
  BY <1>7 DEF advertise_handler, TypeInv, GossipTypeOK, Post
<1>8. ASSUME NEW p \in wire, PostFails(p) PROVE TypeInv'
  BY <1>8 DEF PostFails, TypeInv, GossipTypeOK
<1>9. ASSUME NEW n \in Peers, NEW ad \in verifying[n], NEW ok \in BOOLEAN,
             AdvertiseAnswered(n, ad, ok)
      PROVE  TypeInv'
  <2>1. ad \in PeerAdvertisement
    BY SMTT(30) DEF TypeInv, GossipTypeOK
  <2>2. /\ apiCache' = apiCache \/ apiCache' = add_verified(apiCache, n, ad)
        /\ accepted' = accepted \/ accepted' = [accepted EXCEPT ![n] = @ \union {ad}]
    BY <1>9 DEF AdvertiseAnswered
  <2>3. apiCache' \in [Peers -> [Peers -> Stamp \union {0}]]
    <3>1. apiCache \in [Peers -> [Peers -> Stamp \union {0}]]
      BY DEF TypeInv, GossipTypeOK
    <3>2. add_verified(apiCache, n, ad) \in [Peers -> [Peers -> Stamp \union {0}]]
      BY <3>1, <2>1, AddVerifiedType, SMTT(30)
    <3>. QED  BY <3>1, <3>2, <2>2
  <2>. QED
    BY <1>9, <2>1, <2>2, <2>3 DEF AdvertiseAnswered, TypeInv, GossipTypeOK
<1>10. ASSUME NEW n \in Peers, StartApi(n) PROVE TypeInv'
  BY <1>10, SMTT(30) DEF StartApi, TypeInv, GossipTypeOK
<1>11. ASSUME NEW n \in Peers, RegistryUnusable(n) \/ ProcessCrash(n) PROVE TypeInv'
  BY <1>11, EndProcessType DEF RegistryUnusable, ProcessCrash
<1>12. ASSUME NEW n \in Peers, AdvertiseFails(n) PROVE TypeInv'
  BY <1>12 DEF AdvertiseFails, TypeInv, GossipTypeOK
<1>13. ASSUME NEW n \in Peers, NEW m \in Peers, PeerAttested(n, m) PROVE TypeInv'
  BY <1>13 DEF PeerAttested, TypeInv, GossipTypeOK
<1>14. ASSUME NEW n \in Peers, NEW m \in Peers, PeerRevoked(n, m) PROVE TypeInv'
  <2>1. left' \in [boot : [Peers -> Nat], revoke : Nat]
    <3>1. left \in [boot : [Peers -> Nat], revoke : Nat]
      BY DEF TypeInv, GossipTypeOK
    <3>2. left.revoke > 0 /\ left' = [left EXCEPT !.revoke = @ - 1]
      BY <1>14 DEF PeerRevoked
    <3>3. left.revoke - 1 \in Nat
      BY <3>1, <3>2
    <3>. QED  BY <3>1, <3>2, <3>3
  <2>. QED  BY <1>14, <2>1, Zenon DEF PeerRevoked, TypeInv, GossipTypeOK
<1>15. CASE Tick
  BY <1>15, GossipAssumption DEF Tick, TypeInv, GossipTypeOK
<1>16. CASE UNCHANGED gossipVars
  BY <1>16 DEF gossipVars, TypeInv, GossipTypeOK
<1>. QED
  BY <1>1, <1>2, <1>3, <1>4, <1>5, <1>6, <1>7, <1>8, <1>9, <1>10, <1>11, <1>12, <1>13,
     <1>14, <1>15, <1>16 DEF GossipNext, GossipStep, ApiStep

-----------------------------------------------------------------------------
\* A step that moves no advertisement.
Quiet ==
    /\ UNCHANGED <<toSend, own, wire, verifying, apiCache, mgrCache, histVars>>
    /\ \A n \in Peers : pull'[n].ads \subseteq pull[n].ads
    /\ clock' >= clock

\* The kinds of steps that the invariants below tell apart.
LEMMA Steps ==
    ASSUME TypeInv, [GossipNext]_gossipVars
    PROVE  \/ Quiet
           \/ \E n \in Peers : EndProcess(n) \/ initial_advertise(n) \/ ReceivePeerList(n)
           \/ \E n, m \in Peers : send_advertisement_to_addr(n, m)
           \/ \E p \in wire : advertise_handler(p) \/ PostFails(p)
           \/ \E n \in Peers : \E ad \in verifying[n] : \E ok \in BOOLEAN : AdvertiseAnswered(n, ad, ok)
           \/ \E n \in Peers : \E ad \in pull[n].ads : validate_and_add_advertisement(n, ad)
<1>. USE DEF histVars, procVars
<1>1. clock \in Nat /\ clock >= clock
  BY DEF TypeInv, GossipTypeOK
<1>2. \A n \in Peers : PullType(pull[n]) /\ pull \in [Peers -> [pc : {"idle", "picked", "asked", "list"},
                                   peer : Peers \union {0}, ads : SUBSET PeerAdvertisement]]
  BY SMTT(30) DEF TypeInv, GossipTypeOK
<1>3. ASSUME NEW n \in Peers, NEW m \in Peers, PickPeer(n, m) PROVE Quiet
  BY <1>1, <1>2, <1>3 DEF PickPeer, SetPull, PullUnchanged, Quiet
<1>4. ASSUME NEW n \in Peers, GetApiAddr(n) PROVE Quiet \/ EndProcess(n)
  BY <1>1, <1>2, <1>4 DEF GetApiAddr, SetPull, PullUnchanged, Quiet
<1>5. ASSUME NEW n \in Peers, StartApi(n) \/ AdvertiseFails(n) PROVE Quiet
  BY <1>1, <1>5 DEF StartApi, AdvertiseFails, Quiet
<1>6. ASSUME NEW n \in Peers, NEW m \in Peers, PeerAttested(n, m) \/ PeerRevoked(n, m) PROVE Quiet
  BY <1>1, <1>6 DEF PeerAttested, PeerRevoked, Quiet
<1>7. CASE Tick
  BY <1>1, <1>7 DEF Tick, Quiet
<1>8. CASE UNCHANGED gossipVars
  BY <1>1, <1>8 DEF gossipVars, Quiet
<1>. QED
  BY <1>3, <1>4, <1>5, <1>6, <1>7, <1>8
     DEF GossipNext, GossipStep, ApiStep, RegistryUnusable, ProcessCrash

\* A handler that accepts stores the advertisement unless it has a newer one.
LEMMA Answered ==
    ASSUME NEW n \in Peers, NEW ad, NEW ok \in BOOLEAN, AdvertiseAnswered(n, ad, ok)
    PROVE  \/ UNCHANGED <<apiCache, accepted>>
           \/ /\ ad.node # n
              /\ apiCache' = add_verified(apiCache, n, ad)
              /\ accepted' = [accepted EXCEPT ![n] = @ \union {ad}]
BY DEF AdvertiseAnswered

\* What add_verified does to each entry.
LEMMA AddVerifiedFacts ==
    ASSUME NEW cache \in [Peers -> [Peers -> Stamp \union {0}]], NEW n \in Peers,
           NEW ad \in PeerAdvertisement
    PROVE  LET new == add_verified(cache, n, ad) IN
           /\ \A m, k \in Peers : new[m][k] >= cache[m][k]
           /\ \A m, k \in Peers : m # n \/ k # ad.node => new[m][k] = cache[m][k]
           /\ new[n][ad.node] \in {cache[n][ad.node], ad.timestamp}
           /\ new[n][ad.node] >= ad.timestamp
<1>1. ad.node \in Peers /\ ad.timestamp \in Nat
  BY StampFacts, Zenon DEF PeerAdvertisement
<1>2. \A m, k \in Peers : cache[m][k] \in Nat
  <2>1. \A x \in Stamp \union {0} : x \in Nat
    BY StampFacts
  <2>2. \A m, k \in Peers : cache[m][k] \in Stamp \union {0}
    OBVIOUS
  <2>. QED  BY <2>1, <2>2, Zenon
<1>. QED  BY <1>1, <1>2 DEF add_verified

-----------------------------------------------------------------------------
\* Every step keeps posts, handlers and the API cache in order.
LEMMA PostStep == TypeInv /\ PostInv /\ [GossipNext]_gossipVars => PostInv'
<1>. SUFFICES ASSUME TypeInv, PostInv, [GossipNext]_gossipVars PROVE PostInv'
  OBVIOUS
<1>. USE DEF histVars, procVars
<1>1. CASE Quiet
  BY <1>1 DEF Quiet, PostInv
<1>2. ASSUME NEW n \in Peers, EndProcess(n) PROVE PostInv'
  <2>1. /\ posted' \subseteq posted /\ made' = made /\ wire' = wire
        /\ \A p \in posted : p.to # n => p \in posted'
    BY <1>2 DEF EndProcess, TypeInv, GossipTypeOK
  <2>2. \A m \in Peers \ {n} : /\ toSend'[m] = toSend[m] /\ own'[m] = own[m]
                               /\ verifying'[m] = verifying[m] /\ apiCache'[m] = apiCache[m]
    BY <1>2 DEF EndProcess, TypeInv, GossipTypeOK
  <2>3. toSend'[n] = {} /\ verifying'[n] = {} /\ \A k \in Peers : apiCache'[n][k] = 0
    BY <1>2, SMTT(30) DEF EndProcess, EmptyCache, TypeInv, GossipTypeOK
  <2>. QED  BY <2>1, <2>2, <2>3 DEF PostInv
<1>3. ASSUME NEW n \in Peers, initial_advertise(n) PROVE PostInv'
  <2>. DEFINE stamp == Now(n)
  <2>1. /\ stamp \notin made[n] /\ made' = [made EXCEPT ![n] = @ \union {stamp}]
        /\ own' = [own EXCEPT ![n] = stamp] /\ toSend' = [toSend EXCEPT ![n] = RegistryNodes \ {n}]
        /\ UNCHANGED <<posted, wire, verifying, apiCache>>
    BY <1>3 DEF initial_advertise, create_advertisement
  <2>2. \A k \in Peers : made[k] \subseteq made'[k]
    BY <2>1, SMTT(30) DEF TypeInv, GossipTypeOK
  <2>3. \A m \in Peers : [to |-> m, ad |-> [node |-> n, timestamp |-> stamp]] \notin posted
    BY <2>1 DEF PostInv
  <2>4. \A p \in posted : p.ad.node \in Peers
    BY DEF TypeInv, GossipTypeOK, Post, PeerAdvertisement
  <2>5. /\ own'[n] = stamp /\ stamp \in made'[n] /\ toSend'[n] \subseteq Peers
        /\ \A m \in Peers \ {n} : own'[m] = own[m] /\ toSend'[m] = toSend[m]
    BY <2>1, GossipAssumption, SMTT(30) DEF TypeInv, GossipTypeOK
  <2>. HIDE DEF stamp
  <2>. QED  BY <2>1, <2>2, <2>3, <2>4, <2>5 DEF PostInv
<1>4. ASSUME NEW n \in Peers, ReceivePeerList(n) PROVE PostInv'
  BY <1>4, Zenon DEF ReceivePeerList, PullUnchanged, PostInv
<1>5. ASSUME NEW n \in Peers, NEW m \in Peers, send_advertisement_to_addr(n, m) PROVE PostInv'
  <2>. DEFINE post == [to |-> m, ad |-> [node |-> n, timestamp |-> own[n]]]
  <2>1. /\ m \in toSend[n] /\ toSend' = [toSend EXCEPT ![n] = @ \ {m}]
        /\ wire' = wire \union {post} /\ posted' = posted \union {post}
        /\ UNCHANGED <<own, verifying, apiCache, made>>
    BY <1>5 DEF send_advertisement_to_addr
  <2>2. post \notin posted /\ own[n] \in made[n]
    BY <2>1 DEF PostInv
  <2>3. \A k \in Peers : toSend'[k] \subseteq toSend[k] /\ m \notin toSend'[n]
    BY <2>1, SMTT(30) DEF TypeInv, GossipTypeOK
  <2>4. \A k \in Peers : \A l \in toSend'[k] :
            [to |-> l, ad |-> [node |-> k, timestamp |-> own[k]]] # post
    BY <2>3
  <2>5. post.ad.node = n /\ post.ad.timestamp = own[n]
    OBVIOUS
  <2>. HIDE DEF post
  <2>. QED  BY <2>1, <2>2, <2>3, <2>4, <2>5 DEF PostInv
<1>6. ASSUME NEW p \in wire, advertise_handler(p) PROVE PostInv'
  <2>1. p.to \in Peers /\ p \in posted /\ p = [to |-> p.to, ad |-> p.ad]
    BY DEF TypeInv, GossipTypeOK, Post
  <2>2. /\ wire' = wire \ {p} /\ UNCHANGED <<posted, made, toSend, own, apiCache>>
        /\ \A n \in Peers : verifying'[n] \subseteq verifying[n] \union (IF n = p.to THEN {p.ad} ELSE {})
    BY <1>6, <2>1, SMTT(30) DEF advertise_handler, TypeInv, GossipTypeOK
  <2>. QED  BY <2>1, <2>2 DEF PostInv
<1>7. ASSUME NEW p \in wire, PostFails(p) PROVE PostInv'
  BY <1>7 DEF PostFails, PostInv
<1>8. ASSUME NEW n \in Peers, NEW ad \in verifying[n], NEW ok \in BOOLEAN,
             AdvertiseAnswered(n, ad, ok)
      PROVE  PostInv'
  <2>1. ad \in PeerAdvertisement /\ apiCache \in [Peers -> [Peers -> Stamp \union {0}]]
    BY DEF TypeInv, GossipTypeOK
  <2>2. /\ UNCHANGED <<posted, wire, made, toSend, own>>
        /\ \A m \in Peers : verifying'[m] \subseteq verifying[m]
    BY <1>8 DEF AdvertiseAnswered, TypeInv, GossipTypeOK
  <2>3. ad = [node |-> ad.node, timestamp |-> ad.timestamp]
    BY <2>1 DEF PeerAdvertisement
  <2>4. ASSUME NEW m \in Peers, NEW k \in Peers
        PROVE  apiCache'[m][k] = apiCache[m][k]
                 \/ (m = n /\ k = ad.node /\ apiCache'[m][k] = ad.timestamp)
    BY <1>8, <2>1, Answered, AddVerifiedFacts, SMTT(30)
  <2>. QED  BY <2>2, <2>3, <2>4 DEF PostInv
<1>9. ASSUME NEW n \in Peers, NEW ad \in pull[n].ads, validate_and_add_advertisement(n, ad)
      PROVE  PostInv'
  BY <1>9 DEF validate_and_add_advertisement, PullUnchanged, PostInv
<1>. QED
  BY <1>1, <1>2, <1>3, <1>4, <1>5, <1>6, <1>7, <1>8, <1>9, Steps

\* Every step keeps lists and the manager's cache to advertisements that were made.
LEMMA ListStep == TypeInv /\ PostInv /\ ListInv /\ [GossipNext]_gossipVars => ListInv'
<1>. SUFFICES ASSUME TypeInv, PostInv, ListInv, [GossipNext]_gossipVars PROVE ListInv'
  OBVIOUS
<1>. USE DEF histVars, procVars
<1>0. \A n \in Peers : \A ad \in pull[n].ads : ad.node \in Peers
  BY DEF TypeInv, GossipTypeOK, PeerAdvertisement
<1>1. CASE Quiet
  BY <1>1 DEF Quiet, ListInv
<1>2. ASSUME NEW n \in Peers, EndProcess(n) PROVE ListInv'
  <2>1. /\ pull'[n].ads = {} /\ \A k \in Peers : mgrCache'[n][k] = 0
        /\ \A m \in Peers \ {n} : pull'[m] = pull[m] /\ mgrCache'[m] = mgrCache[m]
        /\ made' = made
    BY <1>2, SMTT(30) DEF EndProcess, EmptyCache, Idle, TypeInv, GossipTypeOK
  <2>. QED  BY <2>1, SMTT(30) DEF ListInv
<1>3. ASSUME NEW n \in Peers, initial_advertise(n) PROVE ListInv'
  <2>1. \A k \in Peers : made[k] \subseteq made'[k]
    BY <1>3, SMTT(30) DEF initial_advertise, TypeInv, GossipTypeOK
  <2>. QED  BY <1>0, <1>3, <2>1 DEF initial_advertise, ListInv
<1>4. ASSUME NEW n \in Peers, ReceivePeerList(n) PROVE ListInv'
  <2>. DEFINE m == pull[n].peer
  <2>1. m \in Peers
    BY <1>4 DEF ReceivePeerList, TypeInv, PullType
  <2>2. ASSUME NEW list \in peers_handler(m), NEW ad \in list
        PROVE  ad.timestamp \in made[ad.node]
    <3>1. PICK k \in Peers : apiCache[m][k] > 0 /\ ad = [node |-> k, timestamp |-> apiCache[m][k]]
      BY <2>1, <2>2, ListFacts, SMTT(30) DEF Entries
    <3>2. [to |-> m, ad |-> ad] \in posted
      BY <2>1, <3>1, SMTT(30) DEF PostInv
    <3>. QED  BY <3>2 DEF PostInv
  <2>3. /\ UNCHANGED <<made, mgrCache>> /\ \A l \in Peers \ {n} : pull'[l] = pull[l]
        /\ pull'[n].ads = {} \/ pull'[n].ads \in peers_handler(m)
    BY <1>4, SMTT(30) DEF ReceivePeerList, SetPull, Idle, PullUnchanged, TypeInv, GossipTypeOK
  <2>. HIDE DEF m
  <2>. QED  BY <2>2, <2>3, SMTT(30) DEF ListInv
<1>5. ASSUME NEW n \in Peers, NEW m \in Peers, send_advertisement_to_addr(n, m) PROVE ListInv'
  BY <1>5, Zenon DEF send_advertisement_to_addr, ListInv
<1>6. ASSUME NEW p \in wire, advertise_handler(p) \/ PostFails(p) PROVE ListInv'
  BY <1>6 DEF advertise_handler, PostFails, ListInv
<1>7. ASSUME NEW n \in Peers, NEW ad \in verifying[n], NEW ok \in BOOLEAN,
             AdvertiseAnswered(n, ad, ok)
      PROVE  ListInv'
  BY <1>7 DEF AdvertiseAnswered, ListInv
<1>8. ASSUME NEW n \in Peers, NEW ad \in pull[n].ads, validate_and_add_advertisement(n, ad)
      PROVE  ListInv'
  <2>1. ad \in PeerAdvertisement /\ mgrCache \in [Peers -> [Peers -> Stamp \union {0}]]
    BY DEF TypeInv, GossipTypeOK
  <2>2. mgrCache' = mgrCache \/ mgrCache' = add_verified(mgrCache, n, ad)
    BY <1>8 DEF validate_and_add_advertisement
  <2>3. ASSUME NEW m \in Peers, NEW k \in Peers
        PROVE  mgrCache'[m][k] = mgrCache[m][k] \/ (k = ad.node /\ mgrCache'[m][k] = ad.timestamp)
    <3>1. CASE mgrCache' = mgrCache
      BY <3>1
    <3>2. CASE mgrCache' = add_verified(mgrCache, n, ad)
      BY <2>1, <3>2, AddVerifiedFacts
    <3>. QED  BY <2>2, <3>1, <3>2
  <2>4. \A m \in Peers : pull'[m].ads \subseteq pull[m].ads
    <3>. DEFINE q == [pull[n] EXCEPT !.pc = "list", !.ads = @ \ {ad}]
    <3>1. pull' = [pull EXCEPT ![n] = Idle] \/ pull' = [pull EXCEPT ![n] = q]
      BY <1>8 DEF validate_and_add_advertisement, Handled, SetPull
    <3>2. Idle.ads = {} /\ q.ads = pull[n].ads \ {ad}
      BY DEF Idle, TypeInv, GossipTypeOK
    <3>. HIDE DEF q
    <3>. QED  BY <3>1, <3>2, Zenon DEF TypeInv, GossipTypeOK
  <2>5. made' = made
    BY <1>8, Zenon DEF validate_and_add_advertisement, PullUnchanged
  <2>. QED  BY <2>3, <2>4, <2>5 DEF ListInv
<1>. QED
  BY <1>1, <1>2, <1>3, <1>4, <1>5, <1>6, <1>7, <1>8, Steps

\* Every step keeps the caches within the tolerance of the clock.
LEMMA ClockStep == TypeInv /\ TypeInv' /\ ClockInv /\ [GossipNext]_gossipVars => ClockInv'
<1>. SUFFICES ASSUME TypeInv, TypeInv', ClockInv, [GossipNext]_gossipVars PROVE ClockInv'
  OBVIOUS
<1>. USE DEF histVars, procVars
<1>1. \A n \in Peers : Skew[n] \in Nat /\ FutureTolerance \in Nat /\ clock \in Nat /\ clock' \in Nat
  BY GossipAssumption DEF TypeInv, GossipTypeOK
<1>2. /\ \A n, k \in Peers : apiCache[n][k] \in Nat /\ mgrCache[n][k] \in Nat
      /\ \A n \in Peers : \A ad \in verifying[n] : ad.timestamp \in Nat
  <2>1. \A x \in Stamp \union {0} : x \in Nat
    BY StampFacts
  <2>2. \A n, k \in Peers : apiCache[n][k] \in Stamp \union {0} /\ mgrCache[n][k] \in Stamp \union {0}
    BY DEF TypeInv, GossipTypeOK
  <2>3. \A n \in Peers : \A ad \in verifying[n] : ad.timestamp \in Stamp
    BY DEF TypeInv, GossipTypeOK, PeerAdvertisement
  <2>. QED  BY <2>1, <2>2, <2>3, Zenon
<1>3. CASE Quiet
  BY <1>1, <1>2, <1>3 DEF Quiet, ClockInv, NothingFromTheFuture, validate_format, Now
<1>4. ASSUME NEW n \in Peers, EndProcess(n) PROVE ClockInv'
  <2>1. /\ verifying'[n] = {} /\ \A k \in Peers : apiCache'[n][k] = 0 /\ mgrCache'[n][k] = 0
        /\ \A m \in Peers \ {n} : /\ verifying'[m] = verifying[m]
                                  /\ apiCache'[m] = apiCache[m] /\ mgrCache'[m] = mgrCache[m]
        /\ clock' = clock
    BY <1>4, SMTT(30) DEF EndProcess, EmptyCache, TypeInv, GossipTypeOK
  <2>. QED  BY <1>1, <2>1, SMTT(30) DEF ClockInv, NothingFromTheFuture, validate_format, Now
<1>5. ASSUME NEW n \in Peers, initial_advertise(n) PROVE ClockInv'
  BY <1>5 DEF initial_advertise, ClockInv, NothingFromTheFuture, validate_format, Now
<1>6. ASSUME NEW n \in Peers, ReceivePeerList(n) PROVE ClockInv'
  BY <1>6, SMTT(30) DEF ReceivePeerList, PullUnchanged, ClockInv, NothingFromTheFuture, validate_format, Now
<1>7. ASSUME NEW n \in Peers, NEW m \in Peers, send_advertisement_to_addr(n, m) PROVE ClockInv'
  BY <1>7 DEF send_advertisement_to_addr, ClockInv, NothingFromTheFuture, validate_format, Now
<1>8. ASSUME NEW p \in wire, advertise_handler(p) PROVE ClockInv'
  <2>1. p.to \in Peers
    BY DEF TypeInv, GossipTypeOK, Post
  <2>2. /\ UNCHANGED <<clock, apiCache, mgrCache>>
        /\ \A n \in Peers : \A ad \in verifying'[n] : ad \in verifying[n] \/ validate_format(n, ad)
    BY <1>8, <2>1, SMTT(30) DEF advertise_handler, TypeInv, GossipTypeOK
  <2>. QED  BY <2>2 DEF ClockInv, NothingFromTheFuture, validate_format, Now
<1>9. ASSUME NEW p \in wire, PostFails(p) PROVE ClockInv'
  BY <1>9, ZenonT(30) DEF PostFails, ClockInv, NothingFromTheFuture, validate_format, Now
<1>10. ASSUME NEW n \in Peers, NEW ad \in verifying[n], NEW ok \in BOOLEAN,
              AdvertiseAnswered(n, ad, ok)
       PROVE  ClockInv'
  <2>1. ad \in PeerAdvertisement /\ apiCache \in [Peers -> [Peers -> Stamp \union {0}]]
    BY SMTT(30) DEF TypeInv, GossipTypeOK
  <2>2. ASSUME NEW m \in Peers, NEW k \in Peers
        PROVE  apiCache'[m][k] = apiCache[m][k] \/ (m = n /\ apiCache'[m][k] = ad.timestamp)
    BY <1>10, <2>1, Answered, AddVerifiedFacts, SMTT(30)
  <2>3. /\ UNCHANGED <<clock, mgrCache>> /\ \A m \in Peers : verifying'[m] \subseteq verifying[m]
    BY <1>10, SMTT(30) DEF AdvertiseAnswered, TypeInv, GossipTypeOK
  <2>. QED  BY <2>2, <2>3, Zenon DEF ClockInv, NothingFromTheFuture, validate_format, Now
<1>11. ASSUME NEW n \in Peers, NEW ad \in pull[n].ads, validate_and_add_advertisement(n, ad)
       PROVE  ClockInv'
  <2>1. ad \in PeerAdvertisement /\ mgrCache \in [Peers -> [Peers -> Stamp \union {0}]]
    BY SMTT(30) DEF TypeInv, GossipTypeOK
  <2>2. \/ mgrCache' = mgrCache
        \/ mgrCache' = add_verified(mgrCache, n, ad) /\ validate_format(n, ad)
    BY <1>11, SMTT(30) DEF validate_and_add_advertisement, NeedsVerification
  <2>3. ASSUME NEW m \in Peers, NEW k \in Peers
        PROVE  \/ mgrCache'[m][k] = mgrCache[m][k]
               \/ m = n /\ mgrCache'[m][k] = ad.timestamp /\ validate_format(n, ad)
    <3>1. CASE mgrCache' = mgrCache
      BY <3>1, SMTT(30)
    <3>2. CASE mgrCache' = add_verified(mgrCache, n, ad) /\ validate_format(n, ad)
      BY <2>1, <3>2, AddVerifiedFacts, SMTT(30)
    <3>. QED  BY <2>2, <3>1, <3>2
  <2>4. UNCHANGED <<clock, apiCache, verifying>>
    BY <1>11, ZenonT(30) DEF validate_and_add_advertisement, PullUnchanged
  <2>. QED  BY <2>3, <2>4 DEF ClockInv, NothingFromTheFuture, validate_format, Now
<1>. QED
  BY <1>3, <1>4, <1>5, <1>6, <1>7, <1>8, <1>9, <1>10, <1>11, Steps

\* Every step keeps accepted advertisements covered by the API cache.
LEMMA CoveredStep == TypeInv /\ AcceptedIsCovered /\ [GossipNext]_gossipVars => AcceptedIsCovered'
<1>. SUFFICES ASSUME TypeInv, AcceptedIsCovered, [GossipNext]_gossipVars PROVE AcceptedIsCovered'
  OBVIOUS
<1>. USE DEF histVars, procVars
<1>1. ASSUME UNCHANGED <<apiCache, accepted>> PROVE AcceptedIsCovered'
  BY <1>1 DEF AcceptedIsCovered
<1>2. ASSUME NEW n \in Peers, EndProcess(n) PROVE AcceptedIsCovered'
  <2>1. /\ accepted'[n] = {}
        /\ \A m \in Peers \ {n} : accepted'[m] = accepted[m] /\ apiCache'[m] = apiCache[m]
    BY <1>2 DEF EndProcess, TypeInv, GossipTypeOK
  <2>. QED  BY <2>1 DEF AcceptedIsCovered
<1>3. ASSUME NEW n \in Peers, NEW ad \in verifying[n],
             apiCache' = add_verified(apiCache, n, ad),
             accepted' = [accepted EXCEPT ![n] = @ \union {ad}]
      PROVE  AcceptedIsCovered'
  <2>1. ad \in PeerAdvertisement /\ apiCache \in [Peers -> [Peers -> Stamp \union {0}]]
    BY SMTT(30) DEF TypeInv, GossipTypeOK
  <2>2. /\ \A m, k \in Peers : apiCache'[m][k] >= apiCache[m][k]
        /\ apiCache'[n][ad.node] >= ad.timestamp
    BY <1>3, <2>1, AddVerifiedFacts
  <2>3. /\ \A m, k \in Peers : apiCache[m][k] \in Nat /\ apiCache'[m][k] \in Nat
        /\ \A m \in Peers : \A a \in accepted[m] : a.node \in Peers /\ a.timestamp \in Nat
    <3>1. \A x \in Stamp \union {0} : x \in Nat
      BY StampFacts
    <3>2. apiCache' \in [Peers -> [Peers -> Stamp \union {0}]]
      BY <1>3, <2>1, AddVerifiedType
    <3>3. \A m, k \in Peers : apiCache[m][k] \in Stamp \union {0} /\ apiCache'[m][k] \in Stamp \union {0}
      BY <2>1, <3>2
    <3>4. \A m \in Peers : \A a \in accepted[m] : a.node \in Peers /\ a.timestamp \in Stamp
      BY DEF TypeInv, GossipTypeOK, PeerAdvertisement
    <3>. QED  BY <3>1, <3>3, <3>4, Zenon
  <2>4. \A m \in Peers : accepted'[m] = IF m = n THEN accepted[m] \union {ad} ELSE accepted[m]
    BY <1>3, Zenon DEF TypeInv, GossipTypeOK
  <2>5. ASSUME NEW m \in Peers, NEW a \in accepted'[m] PROVE apiCache'[m][a.node] >= a.timestamp
    <3>1. CASE a \in accepted[m]
      <4>1. apiCache[m][a.node] >= a.timestamp
        BY <3>1 DEF AcceptedIsCovered
      <4>2. a.node \in Peers /\ a.timestamp \in Nat
        BY <2>3, <3>1
      <4>3. apiCache'[m][a.node] >= apiCache[m][a.node]
        BY <2>2, <4>2
      <4>. QED  BY <2>3, <4>1, <4>2, <4>3
    <3>2. CASE a \notin accepted[m]
      BY <2>2, <2>4, <2>5, <3>2, Zenon
    <3>. QED  BY <3>1, <3>2
  <2>. QED  BY <2>5 DEF AcceptedIsCovered
<1>4. ASSUME NEW n \in Peers, initial_advertise(n) \/ ReceivePeerList(n) PROVE AcceptedIsCovered'
  BY <1>1, <1>4, SMTT(30) DEF initial_advertise, ReceivePeerList, PullUnchanged
<1>5. ASSUME NEW n \in Peers, NEW m \in Peers, send_advertisement_to_addr(n, m) PROVE AcceptedIsCovered'
  BY <1>1, <1>5 DEF send_advertisement_to_addr
<1>6. ASSUME NEW p \in wire, advertise_handler(p) \/ PostFails(p) PROVE AcceptedIsCovered'
  BY <1>1, <1>6, SMTT(30) DEF advertise_handler, PostFails
<1>7. ASSUME NEW n \in Peers, NEW ad \in pull[n].ads, validate_and_add_advertisement(n, ad)
      PROVE  AcceptedIsCovered'
  BY <1>1, <1>7 DEF validate_and_add_advertisement, PullUnchanged
<1>8. CASE Quiet
  BY <1>1, <1>8 DEF Quiet
<1>. QED
  BY <1>1, <1>2, <1>3, <1>4, <1>5, <1>6, <1>7, <1>8, Steps, Answered, Zenon

-----------------------------------------------------------------------------
\* The invariants hold when no process has started.
LEMMA GossipInitially == GossipInit => TypeInv /\ GossipInv
<1>. SUFFICES ASSUME GossipInit PROVE TypeInv /\ GossipInv
  OBVIOUS
<1>1. EmptyCache \in [Peers -> Stamp \union {0}] /\ \A k \in Peers : EmptyCache[k] = 0
  BY SMTT(30) DEF EmptyCache
<1>2. PullType(Idle) /\ Idle.ads = {}
  BY IdleType, SMTT(30) DEF Idle
<1>3. GossipTypeOK
  <2>1. clock \in 1..MaxTime /\ left \in [boot : [Peers -> Nat], revoke : Nat]
    BY GossipAssumption DEF GossipInit
  <2>2. /\ pull \in [Peers -> [pc : {"idle", "picked", "asked", "list"},
                               peer : Peers \union {0}, ads : SUBSET PeerAdvertisement]]
        /\ \A n \in Peers : Cardinality(pull[n].ads) <= max_peers_per_message
    BY <1>2, Zenon DEF GossipInit, PullType
  <2>3. /\ apiCache \in [Peers -> [Peers -> Stamp \union {0}]]
        /\ mgrCache \in [Peers -> [Peers -> Stamp \union {0}]]
    BY <1>1 DEF GossipInit
  <2>. QED  BY <2>1, <2>2, <2>3 DEF GossipInit, GossipTypeOK
<1>4. TypeInv
  BY <1>2, <1>3 DEF GossipInit, TypeInv
<1>5. PostInv /\ ListInv /\ AcceptedIsCovered
  <2>1. PostInv
    BY <1>1, SMTT(30) DEF GossipInit, PostInv
  <2>2. ListInv
    BY <1>1, <1>2, SMTT(30) DEF GossipInit, ListInv
  <2>3. AcceptedIsCovered
    BY <1>1, SMTT(30) DEF GossipInit, AcceptedIsCovered
  <2>. QED  BY <2>1, <2>2, <2>3, Zenon
<1>6. ClockInv
  <2>1. ASSUME NEW n \in Peers PROVE 0 <= Now(n) + FutureTolerance
    BY GossipAssumption DEF GossipInit, Now
  <2>2. \A n \in Peers : verifying[n] = {}
    BY DEF GossipInit
  <2>3. \A n, k \in Peers : apiCache[n][k] = 0 /\ mgrCache[n][k] = 0
    BY <1>1 DEF GossipInit
  <2>. QED  BY <2>1, <2>2, <2>3, Zenon DEF ClockInv, NothingFromTheFuture
<1>. QED  BY <1>4, <1>5, <1>6 DEF GossipInv

\* TypeInv and GossipInv hold in every reachable state, under any loss, delay,
\* restart, skew and revocation.
LEMMA GossipInvariant == GossipSpec => [](TypeInv /\ GossipInv)
<1>1. TypeInv /\ GossipInv /\ [GossipNext]_gossipVars => (TypeInv /\ GossipInv)'
  BY TypeStep, PostStep, ListStep, ClockStep, CoveredStep DEF GossipInv
<1>. QED  BY <1>1, GossipInitially, PTL DEF GossipSpec

\* Type correctness, the limit max_peers_per_message on pulled lists included.
THEOREM GossipTypeCorrect == GossipSpec => []GossipTypeOK
<1>1. TypeInv => GossipTypeOK
  BY DEF TypeInv
<1>. QED  BY <1>1, GossipInvariant, PTL

\* advertise_handler: whatever was accepted is in the API cache or was superseded
\* there, in whatever order handlers of advertisements of one node finish.
THEOREM AcceptedStays == GossipSpec => []AcceptedIsCovered
<1>1. GossipInv => AcceptedIsCovered
  BY DEF GossipInv
<1>. QED  BY <1>1, GossipInvariant, PTL

\* validate_format keeps advertisements from beyond its tolerance out of both
\* caches, for any skew of the clocks.
THEOREM FutureStaysOut == GossipSpec => []NothingFromTheFuture
<1>1. GossipInv => NothingFromTheFuture
  BY SMTT(30) DEF GossipInv, ClockInv
<1>. QED  BY <1>1, GossipInvariant, PTL

\* peers_handler only serves what its author posted to this process.
THEOREM OnlyPostsAreServed == GossipSpec => []ServedWasPosted
<1>1. GossipInv => ServedWasPosted
  BY ZenonT(30) DEF GossipInv, PostInv, ServedWasPosted, Entries
<1>. QED  BY <1>1, GossipInvariant, PTL

-----------------------------------------------------------------------------
(* Both caches implement AdvertCache.                                      *)

\* A newer advertisement that was made is learnt, any other leaves the cache alone.
LEMMA AddVerifiedLearns ==
    ASSUME NEW cache \in [Peers -> [Peers -> Stamp \union {0}]], NEW n \in Peers,
           NEW ad \in PeerAdvertisement
    PROVE  \/ add_verified(cache, n, ad) = cache
           \/ /\ ad.timestamp > cache[n][ad.node]
              /\ add_verified(cache, n, ad) = [cache EXCEPT ![n][ad.node] = ad.timestamp]
<1>1. ad.node \in Peers /\ ad.timestamp \in Nat
  BY StampFacts, Zenon DEF PeerAdvertisement
<1>2. cache[n][ad.node] \in Nat
  <2>1. \A x \in Stamp \union {0} : x \in Nat
    BY StampFacts
  <2>2. cache[n][ad.node] \in Stamp \union {0}
    BY <1>1
  <2>. QED  BY <2>1, <2>2, Zenon
<1>3. CASE cache[n][ad.node] >= ad.timestamp
  <2>1. add_verified(cache, n, ad) = [cache EXCEPT ![n][ad.node] = cache[n][ad.node]]
    BY <1>1, <1>3 DEF add_verified
  <2>2. [cache EXCEPT ![n][ad.node] = cache[n][ad.node]] = cache
    BY <1>1
  <2>. QED  BY <2>1, <2>2
<1>4. CASE ~(cache[n][ad.node] >= ad.timestamp)
  BY <1>1, <1>2, <1>4, SMTT(30) DEF add_verified
<1>. QED  BY <1>3, <1>4

\* Every step makes, learns or forgets in the API's cache, or leaves it alone.
LEMMA ApiRefinesStep ==
    TypeInv /\ GossipInv /\ [GossipNext]_gossipVars
        => ApiPromise!Next \/ UNCHANGED <<made, apiCache>>
<1>. SUFFICES ASSUME TypeInv, GossipInv, [GossipNext]_gossipVars,
                     ~UNCHANGED <<made, apiCache>>
              PROVE  ApiPromise!Next
  OBVIOUS
<1>. USE DEF histVars, procVars
<1>1. ASSUME NEW n \in Peers, EndProcess(n) PROVE ApiPromise!Next
  <2>1. ApiPromise!Forget(n)
    BY <1>1 DEF EndProcess, EmptyCache, ApiPromise!Forget
  <2>. QED  BY <2>1 DEF ApiPromise!Next
<1>2. ASSUME NEW n \in Peers, initial_advertise(n) PROVE ApiPromise!Next
  <2>1. Now(n) \in Stamp
    BY StampFacts DEF TypeInv, GossipTypeOK
  <2>2. ApiPromise!Make(n)
    BY <1>2, <2>1, ZenonT(30) DEF initial_advertise, create_advertisement, ApiPromise!Make
  <2>. QED  BY <2>2 DEF ApiPromise!Next
<1>3. ASSUME NEW n \in Peers, NEW ad \in verifying[n], NEW ok \in BOOLEAN,
             AdvertiseAnswered(n, ad, ok)
      PROVE  ApiPromise!Next
  <2>1. ad \in PeerAdvertisement /\ ad.node \in Peers
        /\ apiCache \in [Peers -> [Peers -> Stamp \union {0}]]
    BY DEF TypeInv, GossipTypeOK, PeerAdvertisement
  <2>2. made' = made
    BY <1>3 DEF AdvertiseAnswered
  <2>3. ad.node # n /\ apiCache' = add_verified(apiCache, n, ad)
    BY <1>3, <2>2, Answered, Zenon
  <2>4. /\ ad.timestamp > apiCache[n][ad.node]
        /\ apiCache' = [apiCache EXCEPT ![n][ad.node] = ad.timestamp]
    BY <2>1, <2>2, <2>3, AddVerifiedLearns, SMTT(30)
  <2>5. [to |-> n, ad |-> ad] \in posted
    BY Zenon DEF GossipInv, PostInv
  <2>6. ad.timestamp \in made[ad.node]
    BY <2>5 DEF GossipInv, PostInv
  <2>7. ApiPromise!Learn(n, ad.node)
    BY <2>2, <2>3, <2>4, <2>6, Zenon DEF ApiPromise!Learn
  <2>. QED  BY <2>1, <2>7 DEF ApiPromise!Next
<1>. QED
  BY <1>1, <1>2, <1>3, Steps, Zenon
     DEF Quiet, ReceivePeerList, send_advertisement_to_addr, advertise_handler, PostFails,
         validate_and_add_advertisement, PullUnchanged

\* The same for the manager's cache.
LEMMA MgrRefinesStep ==
    TypeInv /\ GossipInv /\ [GossipNext]_gossipVars
        => MgrPromise!Next \/ UNCHANGED <<made, mgrCache>>
<1>. SUFFICES ASSUME TypeInv, GossipInv, [GossipNext]_gossipVars,
                     ~UNCHANGED <<made, mgrCache>>
              PROVE  MgrPromise!Next
  OBVIOUS
<1>. USE DEF histVars, procVars
<1>1. ASSUME NEW n \in Peers, EndProcess(n) PROVE MgrPromise!Next
  <2>1. MgrPromise!Forget(n)
    BY <1>1 DEF EndProcess, EmptyCache, MgrPromise!Forget
  <2>. QED  BY <2>1 DEF MgrPromise!Next
<1>2. ASSUME NEW n \in Peers, initial_advertise(n) PROVE MgrPromise!Next
  <2>1. Now(n) \in Stamp
    BY StampFacts DEF TypeInv, GossipTypeOK
  <2>2. MgrPromise!Make(n)
    BY <1>2, <2>1, ZenonT(30) DEF initial_advertise, create_advertisement, MgrPromise!Make
  <2>. QED  BY <2>2 DEF MgrPromise!Next
<1>3. ASSUME NEW n \in Peers, NEW ad \in pull[n].ads, validate_and_add_advertisement(n, ad)
      PROVE  MgrPromise!Next
  <2>1. ad \in PeerAdvertisement /\ ad.node \in Peers
        /\ mgrCache \in [Peers -> [Peers -> Stamp \union {0}]]
    BY DEF TypeInv, GossipTypeOK, PeerAdvertisement
  <2>2. made' = made
    BY <1>3, Zenon DEF validate_and_add_advertisement, PullUnchanged
  <2>3. ad.node # n /\ mgrCache' = add_verified(mgrCache, n, ad)
    <3>1. NeedsVerification(n, ad) /\ mgrCache' = add_verified(mgrCache, n, ad)
      BY <1>3, <2>2, Zenon DEF validate_and_add_advertisement
    <3>. QED  BY <3>1, Zenon DEF NeedsVerification
  <2>4. /\ ad.timestamp > mgrCache[n][ad.node]
        /\ mgrCache' = [mgrCache EXCEPT ![n][ad.node] = ad.timestamp]
    BY <2>1, <2>2, <2>3, AddVerifiedLearns, SMTT(30)
  <2>5. ad.timestamp \in made[ad.node]
    BY DEF GossipInv, ListInv
  <2>6. MgrPromise!Learn(n, ad.node)
    BY <2>2, <2>3, <2>4, <2>5, Zenon DEF MgrPromise!Learn
  <2>. QED  BY <2>1, <2>6 DEF MgrPromise!Next
<1>. QED
  BY <1>1, <1>2, <1>3, Steps, Zenon
     DEF Quiet, ReceivePeerList, send_advertisement_to_addr, advertise_handler, PostFails,
         AdvertiseAnswered, PullUnchanged

\* Gossip implements AdvertCache twice: under the mapping of known to the API's
\* cache, which add_verified fills from posts, and to the manager's, which it
\* fills from pulled lists.
THEOREM CachesImplementPromise == GossipSpec => CachesKeepPromise
<1>1. GossipInit => ApiPromise!Init /\ MgrPromise!Init
  BY DEF GossipInit, EmptyCache, ApiPromise!Init, MgrPromise!Init
<1>2. TypeInv /\ GossipInv /\ [GossipNext]_gossipVars
          => [ApiPromise!Next]_<<made, apiCache>> /\ [MgrPromise!Next]_<<made, mgrCache>>
  BY ApiRefinesStep, MgrRefinesStep
<1>. QED
  BY <1>1, <1>2, GossipInvariant, PTL
     DEF GossipSpec, CachesKeepPromise, ApiPromise!Spec, MgrPromise!Spec

=============================================================================
