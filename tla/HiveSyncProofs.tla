--------------------------- MODULE HiveSyncProofs ---------------------------
(***************************************************************************)
(* HiveSync for any machines, policy, grants, scores and bounds: its types, *)
(* and that knowledge stays among the members of the hive.                  *)
(*                                                                          *)
(* MembersOnly speaks of stores, and a store is filled from batches that    *)
(* were offered before; so it is kept by what holds of every unit a machine *)
(* holds AND of every unit under way.  MayHold says of a unit at a machine  *)
(* that it is somebody else's only if the machine is a member, and that it  *)
(* is another joiner's only if that joiner contributes.  A unit under way   *)
(* is one its sender may hold, and the host sends to members only           *)
(* (MaySendTo): that is Travels.  The receiver's gate (MayContribute) adds  *)
(* what Travels leaves open, that the sender contributes, when a unit of    *)
(* the sender's own is taken.  A gate answered once stays answered, since   *)
(* nothing takes a role off the roster.                                     *)
(*                                                                          *)
(* Throughout, d is what each machine distilled and r the roster.           *)
(***************************************************************************)
EXTENDS HiveSync, TLAPS

Counts == [Machines -> 0 .. MaxDistilled]
Rosters == [Joiners -> Standings \ {"pending"}]
Message == [type : {"sync", "rejected"}, units : SUBSET Unit]
Known == [Links -> SUBSET [source : Machines, no : 1 .. MaxDistilled]]

MayHold(r, m, u) ==
    /\ m \in Joiners /\ u.source # m => r[m] # "none"
    /\ u.source \in Joiners \ {m} => r[u.source] = "contributor"

(* No identity and no version is ahead of what its source distilled.       *)
Sound(d, r, m, u) ==
    /\ u \in Unit
    /\ u.no <= d[u.source]
    /\ u.version <= d[u.source]
    /\ MayHold(r, m, u)

Travels(d, r, l, u) ==
    /\ Sound(d, r, l[1], u)
    /\ l[1] = Host => r[l[2]] # "none"

SoundStore(d, r, m, store) ==
    /\ store \in Store
    /\ \A k \in Keys : store[k] # NoUnit => Sound(d, r, m, store[k])

SoundStores(d, r, f) ==
    /\ f \in [Machines -> Store]
    /\ \A m \in Machines : SoundStore(d, r, m, f[m])

SoundBatch(d, r, l, batch) == \A u \in batch : Travels(d, r, l, u)

SoundWire(d, r, w) ==
    /\ w \in [Links -> Seq(Message)]
    /\ \A l \in Links : \A i \in 1 .. Len(w[l]) : SoundBatch(d, r, l, w[l][i].units)

Books ==
    /\ sent \in Known
    /\ roster \in Rosters
    /\ asked \subseteq Joiners /\ denied \subseteq asked
    /\ answers \in [Joiners -> SUBSET (Standings \ {"none"})]
    /\ membership \in [Machines -> Standings]
    /\ standing \in [Machines -> Standings]
    /\ distilled \in Counts
    /\ faults \in 0 .. MaxFaults
    /\ lost \subseteq Links

Inv ==
    /\ Books
    /\ SoundStores(distilled, roster, file)
    /\ SoundStores(distilled, roster, memory)
    /\ SoundWire(distilled, roster, wire)

-----------------------------------------------------------------------------
(* What the passage of time leaves alone.                                  *)

(* Machines distil and are admitted; neither is undone.                    *)
Later(d, e, r, s) ==
    /\ \A m \in Machines : d[m] <= e[m]
    /\ \A j \in Joiners : r[j] # "none" => s[j] = r[j]

LEMMA LinkEnds ==
    ASSUME NEW l \in Links
    PROVE  /\ l[1] \in Machines /\ l[2] \in Machines /\ Back(l) \in Links
           /\ \/ l[1] = Host /\ l[2] \in Joiners
              \/ l[2] = Host /\ l[1] \in Joiners
  BY DEF Links, Machines, Back

LEMMA SoundLasts ==
    ASSUME NEW d \in Counts, NEW e \in Counts, NEW r \in Rosters, NEW s \in Rosters,
           Later(d, e, r, s),
           NEW m \in Machines, NEW u, Sound(d, r, m, u)
    PROVE  Sound(e, s, m, u)
  <1>1. /\ u \in Unit /\ u.source \in Machines
        /\ u.no \in Nat /\ u.version \in Nat
    BY DEF Sound, Unit
  <1>2. /\ d[u.source] \in Nat /\ e[u.source] \in Nat
        /\ d[u.source] <= e[u.source]
    BY <1>1, HiveAssumption DEF Later, Counts
  <1>3. u.no <= e[u.source] /\ u.version <= e[u.source]
    BY <1>1, <1>2 DEF Sound
  <1>4. MayHold(s, m, u)
    BY DEF Sound, MayHold, Later, Rosters, Standings
  <1> QED BY <1>1, <1>3, <1>4 DEF Sound

LEMMA StoresLast ==
    ASSUME NEW d \in Counts, NEW e \in Counts, NEW r \in Rosters, NEW s \in Rosters,
           Later(d, e, r, s),
           NEW f, SoundStores(d, r, f)
    PROVE  SoundStores(e, s, f)
  BY SoundLasts DEF SoundStores, SoundStore

LEMMA WireLasts ==
    ASSUME NEW d \in Counts, NEW e \in Counts, NEW r \in Rosters, NEW s \in Rosters,
           Later(d, e, r, s),
           NEW w, SoundWire(d, r, w)
    PROVE  SoundWire(e, s, w)
  <1>1. ASSUME NEW l \in Links, NEW u, Travels(d, r, l, u)
        PROVE  Travels(e, s, l, u)
    <2>1. Sound(e, s, l[1], u)
      BY <1>1, SoundLasts, LinkEnds DEF Travels
    <2>2. l[1] = Host => s[l[2]] # "none"
      BY <1>1, LinkEnds, HiveAssumption DEF Travels, Later
    <2> QED BY <2>1, <2>2 DEF Travels
  <1> QED BY <1>1 DEF SoundWire, SoundBatch

-----------------------------------------------------------------------------
(* Stores.                                                                  *)

LEMMA MergeSound ==
    ASSUME NEW d \in Counts, NEW r \in Rosters, NEW m \in Machines,
           NEW store, SoundStore(d, r, m, store),
           NEW batch, \A u \in batch : Sound(d, r, m, u)
    PROVE  SoundStore(d, r, m, MergeBatch(store, batch, m))
  <1> DEFINE merged == MergeBatch(store, batch, m)
  <1>1. ASSUME NEW k \in Keys
        PROVE  /\ merged[k] \in Unit \cup {NoUnit}
               /\ merged[k] # NoUnit => Sound(d, r, m, merged[k])
    <2>1. CASE \E u \in batch : u.key = k /\ Takes(store, u, m)
      <3>1. merged[k] = CHOOSE u \in batch : u.key = k
        BY <2>1 DEF MergeBatch
      <3>2. \E u \in batch : u.key = k
        BY <2>1
      <3>3. merged[k] \in batch
        BY <3>1, <3>2
      <3> QED BY <3>3 DEF Sound
    <2>2. CASE ~\E u \in batch : u.key = k /\ Takes(store, u, m)
      <3>1. merged[k] = store[k]
        BY <2>2 DEF MergeBatch
      <3> QED BY <3>1 DEF SoundStore, Store
    <2> QED BY <2>1, <2>2
  <1>2. merged = [k \in Keys |-> merged[k]]
    BY DEF MergeBatch
  <1> HIDE DEF merged
  <1>3. merged \in Store
    BY <1>1, <1>2 DEF Store
  <1> QED BY <1>1, <1>3 DEF SoundStore, merged

(* One machine's store is replaced by a sound one.                         *)
LEMMA StoreReplaced ==
    ASSUME NEW d, NEW r, NEW f, SoundStores(d, r, f), NEW m \in Machines,
           NEW store, SoundStore(d, r, m, store)
    PROVE  SoundStores(d, r, [f EXCEPT ![m] = store])
  BY DEF SoundStores, SoundStore

-----------------------------------------------------------------------------
(* Wires.                                                                   *)

LEMMA HeadSound ==
    ASSUME NEW d, NEW r, NEW w, SoundWire(d, r, w), NEW l \in Links, w[l] # <<>>
    PROVE  /\ Head(w[l]) \in Message
           /\ SoundBatch(d, r, l, Head(w[l]).units)
  <1>1. w[l] \in Seq(Message) /\ 1 \in 1 .. Len(w[l]) /\ Head(w[l]) = w[l][1]
    BY DEF SoundWire
  <1> QED BY <1>1 DEF SoundWire

LEMMA TailSound ==
    ASSUME NEW d, NEW r, NEW w, SoundWire(d, r, w), NEW l \in Links, w[l] # <<>>
    PROVE  SoundWire(d, r, [w EXCEPT ![l] = Tail(@)])
  <1> DEFINE v == [w EXCEPT ![l] = Tail(@)]
  <1>1. w[l] \in Seq(Message)
    BY DEF SoundWire
  <1>2. /\ Tail(w[l]) \in Seq(Message)
        /\ Len(Tail(w[l])) = Len(w[l]) - 1
        /\ \A i \in 1 .. Len(Tail(w[l])) : /\ i + 1 \in 1 .. Len(w[l])
                                          /\ Tail(w[l])[i] = w[l][i + 1]
    BY <1>1
  <1>3. v \in [Links -> Seq(Message)]
    BY <1>2 DEF SoundWire
  <1>4. ASSUME NEW n \in Links, NEW i \in 1 .. Len(v[n])
        PROVE  SoundBatch(d, r, n, v[n][i].units)
    <2>1. CASE n = l
      <3>1. v[n] = Tail(w[l])
        BY <2>1 DEF SoundWire
      <3> HIDE DEF v
      <3>2. i + 1 \in 1 .. Len(w[l]) /\ v[n][i] = w[l][i + 1]
        BY <1>2, <3>1
      <3> QED BY <2>1, <3>2 DEF SoundWire
    <2>2. CASE n # l
      <3>1. v[n] = w[n]
        BY <2>2 DEF SoundWire
      <3> QED BY <3>1 DEF SoundWire
    <2> QED BY <2>1, <2>2
  <1> QED BY <1>3, <1>4 DEF SoundWire

(* A message is appended to one link's.                                    *)
LEMMA AppendSound ==
    ASSUME NEW d, NEW r, NEW l, NEW s \in Seq(Message),
           \A i \in 1 .. Len(s) : SoundBatch(d, r, l, s[i].units),
           NEW t \in Message, SoundBatch(d, r, l, t.units)
    PROVE  /\ Append(s, t) \in Seq(Message)
           /\ \A i \in 1 .. Len(Append(s, t)) : SoundBatch(d, r, l, Append(s, t)[i].units)
  <1>1. Append(s, t) \in Seq(Message) /\ Len(Append(s, t)) = Len(s) + 1
    OBVIOUS
  <1>2. ASSUME NEW i \in 1 .. Len(Append(s, t))
        PROVE  SoundBatch(d, r, l, Append(s, t)[i].units)
    <2>1. Append(s, t)[i] = IF i = Len(s) + 1 THEN t ELSE s[i]
      BY <1>1, <1>2
    <2>2. i # Len(s) + 1 => i \in 1 .. Len(s)
      BY <1>1, <1>2
    <2> QED BY <2>1, <2>2
  <1> QED BY <1>1, <1>2

LEMMA SendSound ==
    ASSUME NEW d, NEW r, NEW w, SoundWire(d, r, w),
           NEW offer, \A l \in Links : SoundBatch(d, r, l, offer[l])
    PROVE  SoundWire(d, r, Send(w, offer))
  <1> DEFINE v == Send(w, offer)
  <1>1. ASSUME NEW l \in Links
        PROVE  /\ v[l] \in Seq(Message)
               /\ \A i \in 1 .. Len(v[l]) : SoundBatch(d, r, l, v[l][i].units)
    <2>1. /\ w[l] \in Seq(Message)
          /\ \A i \in 1 .. Len(w[l]) : SoundBatch(d, r, l, w[l][i].units)
      BY DEF SoundWire
    <2>2. CASE offer[l] = {}
      BY <2>1, <2>2 DEF Send
    <2>3. CASE offer[l] # {}
      <3> DEFINE t == [type |-> "sync", units |-> offer[l]]
      <3>1. offer[l] \subseteq Unit
        BY DEF SoundBatch, Travels, Sound
      <3>2. t \in Message /\ t.units = offer[l]
        BY <3>1 DEF Message
      <3>3. v[l] = Append(w[l], t)
        BY <2>3 DEF Send
      <3> HIDE DEF t
      <3>4. SoundBatch(d, r, l, t.units)
        BY <3>2
      <3> QED BY <2>1, <3>2, <3>3, <3>4, AppendSound
    <2> QED BY <2>2, <2>3
  <1>2. v = [l \in Links |-> v[l]]
    BY DEF Send
  <1> HIDE DEF v
  <1>3. v \in [Links -> Seq(Message)]
    BY <1>1, <1>2
  <1>4. SoundWire(d, r, v)
    BY <1>1, <1>3 DEF SoundWire
  <1> QED BY <1>4 DEF v

LEMMA RecordedType ==
    ASSUME NEW known \in Known,
           NEW offer, \A l \in Links : offer[l] \subseteq Unit
    PROVE  Recorded(known, offer) \in Known
  <1>1. ASSUME NEW l \in Links
        PROVE  {Id(u) : u \in offer[l]} \subseteq [source : Machines, no : 1 .. MaxDistilled]
    BY DEF Id, Unit
  <1> QED BY <1>1 DEF Recorded, Known

-----------------------------------------------------------------------------
(* Offers.                                                                  *)

(* Whatever a machine may hold it may offer to whom MaySendTo allows.      *)
LEMMA OfferSound ==
    ASSUME NEW d, NEW m \in Machines, NEW l \in Links,
           NEW standings, NEW batch,
           l[1] = m /\ MaySendTo(l, standings),
           \A u \in batch : Sound(d, roster, m, u)
    PROVE  SoundBatch(d, roster, l, batch)
  BY DEF SoundBatch, Travels, MaySendTo

LEMMA NothingOffered ==
    ASSUME NEW d, NEW r, NEW l
    PROVE  SoundBatch(d, r, l, {})
  BY DEF SoundBatch

LEMMA OffersAreUnits ==
    ASSUME NEW d, NEW r, NEW l, NEW batch, SoundBatch(d, r, l, batch)
    PROVE  batch \subseteq Unit
  BY DEF SoundBatch, Travels, Sound

(* What passes the receiver's gate the receiver may hold.                  *)
LEMMA GateSound ==
    ASSUME NEW d, NEW l \in Links, MayContribute(l),
           NEW batch, SoundBatch(d, roster, l, batch)
    PROVE  \A u \in batch : Sound(d, roster, l[2], u)
  <1> SUFFICES ASSUME NEW u \in batch PROVE Sound(d, roster, l[2], u)
    OBVIOUS
  <1>1. Travels(d, roster, l, u)
    BY DEF SoundBatch
  <1>2. CASE l[1] = Host /\ l[2] \in Joiners
    BY <1>1, <1>2, HiveAssumption DEF Travels, Sound, MayHold
  <1>3. CASE l[2] = Host /\ l[1] \in Joiners
    BY <1>1, <1>3, HiveAssumption DEF Travels, Sound, MayHold, MayContribute
  <1> QED BY <1>2, <1>3, LinkEnds

-----------------------------------------------------------------------------
(* One lemma per action.                                                   *)

LEMMA InitInv == Init => Inv
  <1> SUFFICES ASSUME Init PROVE Inv
    OBVIOUS
  <1>1. Books
    <2>1. /\ sent \in Known /\ roster \in Rosters
          /\ asked \subseteq Joiners /\ denied \subseteq asked
          /\ answers \in [Joiners -> SUBSET (Standings \ {"none"})]
          /\ membership \in [Machines -> Standings]
          /\ standing \in [Machines -> Standings]
          /\ lost \subseteq Links
      BY DEF Init, Known, Rosters, Standings
    <2>2. distilled \in Counts /\ faults \in 0 .. MaxFaults
      BY HiveAssumption DEF Init, Counts
    <2> QED BY <2>1, <2>2 DEF Books
  <1>2. PICK start \in [Machines -> Keys \cup {NoUnit}] :
          /\ file = [m \in Machines |-> [k \in Keys |->
                      IF start[m] = k THEN First(m, k) ELSE NoUnit]]
          /\ distilled = [m \in Machines |-> IF start[m] = NoUnit THEN 0 ELSE 1]
    BY DEF Init
  <1>3. ASSUME NEW m \in Machines, NEW k \in Keys
        PROVE  /\ file[m][k] \in Unit \cup {NoUnit}
               /\ file[m][k] # NoUnit => Sound(distilled, roster, m, file[m][k])
    <2>1. CASE start[m] = k
      <3>1. k # NoUnit
        BY HiveAssumption
      <3>2. file[m][k] = First(m, k) /\ distilled[m] = 1
        BY <1>2, <2>1, <3>1
      <3>3. First(m, k) \in Unit
        BY HiveAssumption DEF First, Unit
      <3>4. Sound(distilled, roster, m, First(m, k))
        BY <3>2, <3>3 DEF First, Sound, MayHold
      <3> QED BY <3>2, <3>3, <3>4
    <2>2. CASE start[m] # k
      BY <1>2, <2>2
    <2> QED BY <2>1, <2>2
  <1>4. /\ file = [m \in Machines |-> file[m]]
        /\ \A m \in Machines : file[m] = [k \in Keys |-> file[m][k]]
    BY <1>2
  <1>5. \A m \in Machines : SoundStore(distilled, roster, m, file[m])
    BY <1>3, <1>4 DEF SoundStore, Store
  <1>6. SoundStores(distilled, roster, file)
    BY <1>4, <1>5 DEF SoundStores, SoundStore
  <1>7. SoundStores(distilled, roster, memory)
    BY <1>6 DEF Init
  <1>8. SoundWire(distilled, roster, wire)
    BY DEF Init, SoundWire
  <1> QED BY <1>1, <1>6, <1>7, <1>8 DEF Inv

LEMMA TickInv ==
    ASSUME Inv, NEW m \in Machines, Tick(m)
    PROVE  Inv'
  <1> DEFINE standings == [standing EXCEPT ![m] = membership[m]]
             known == Forgotten(m)
             offer == [l \in Links |->
                         IF l[1] = m /\ MaySendTo(l, standings) THEN Unsent(l, known) ELSE {}]
  <1>1. /\ standing' = standings
        /\ sent' = Recorded(known, offer)
        /\ wire' = Send(wire, offer)
        /\ UNCHANGED <<file, memory, join, distilled, faults, lost>>
    BY DEF Tick
  <1>2. ASSUME NEW l \in Links
        PROVE  SoundBatch(distilled, roster, l, offer[l])
    <2>1. CASE l[1] = m /\ MaySendTo(l, standings)
      <3>1. \A u \in Unsent(l, known) : Sound(distilled, roster, m, u)
        BY <2>1 DEF Unsent, Inv, SoundStores, SoundStore
      <3>2. SoundBatch(distilled, roster, l, Unsent(l, known))
        BY <2>1, <3>1, OfferSound
      <3> QED BY <2>1, <3>2
    <2>2. CASE ~(l[1] = m /\ MaySendTo(l, standings))
      BY <2>2, NothingOffered
    <2> QED BY <2>1, <2>2
  <1>3. known \in Known
    BY DEF Forgotten, Inv, Books, Known
  <1> HIDE DEF known, offer
  <1>4. SoundWire(distilled, roster, wire')
    BY <1>1, <1>2, SendSound DEF Inv
  <1>5. sent' \in Known
    BY <1>1, <1>2, <1>3, RecordedType, OffersAreUnits
  <1>6. standing' \in [Machines -> Standings]
    BY <1>1 DEF Inv, Books
  <1>7. Books'
    BY <1>1, <1>5, <1>6 DEF Inv, Books, join
  <1> QED BY <1>1, <1>4, <1>7 DEF Inv, join

LEMMA AcceptInv ==
    ASSUME Inv, NEW l \in Links, AcceptSync(l)
    PROVE  Inv'
  <1> DEFINE m == l[2]
             batch == Head(wire[l]).units
             store == MergeBatch(memory[m], batch, m)
             offer == Onward(l[1], m, Kept(store, batch))
             w == Arriving(l)
  <1>1. /\ memory' = [memory EXCEPT ![m] = store]
        /\ file' = [file EXCEPT ![m] = store]
        /\ sent' = Recorded(sent, offer)
        /\ wire' = Send(w, offer)
        /\ UNCHANGED <<join, standing, distilled, faults, lost>>
        /\ wire[l] # <<>> /\ MayContribute(l)
    BY DEF AcceptSync, Arrives
  <1>2. SoundBatch(distilled, roster, l, batch)
    BY <1>1, HeadSound DEF Inv
  <1>3. m \in Machines
    BY LinkEnds
  <1>4. \A u \in batch : Sound(distilled, roster, m, u)
    BY <1>1, <1>2, GateSound
  <1>5. distilled \in Counts /\ roster \in Rosters /\ sent \in Known
    BY DEF Inv, Books
  <1>6. SoundStore(distilled, roster, m, store)
    <2>1. SoundStore(distilled, roster, m, memory[m])
      BY <1>3 DEF Inv, SoundStores
    <2> HIDE DEF batch, m
    <2> QED BY <1>3, <1>4, <1>5, <2>1, MergeSound
  <1>7. \A u \in Kept(store, batch) : Sound(distilled, roster, m, u)
    BY <1>4 DEF Kept
  <1>8. ASSUME NEW n \in Links
        PROVE  SoundBatch(distilled, roster, n, offer[n])
    <2> DEFINE kept == Kept(store, batch)
               onto == {u \in kept : Id(u) \notin sent[n]}
    <2>1. CASE n[1] = m /\ n[2] # l[1] /\ MaySendTo(n, standing)
      <3>1. offer[n] = onto
        BY <2>1 DEF Onward
      <3>2. \A u \in onto : Sound(distilled, roster, m, u)
        BY <1>7
      <3> HIDE DEF onto
      <3>3. SoundBatch(distilled, roster, n, onto)
        BY <1>3, <2>1, <3>2, OfferSound
      <3> QED BY <3>1, <3>3
    <2>2. CASE ~(n[1] = m /\ n[2] # l[1] /\ MaySendTo(n, standing))
      <3>1. offer[n] = {}
        BY <2>2 DEF Onward
      <3> QED BY <3>1, NothingOffered
    <2> QED BY <2>1, <2>2
  <1>9. SoundWire(distilled, roster, w)
    BY <1>1, TailSound DEF Inv, Arriving
  <1> HIDE DEF m, batch, store, offer, w
  <1>10. SoundWire(distilled, roster, wire')
    BY <1>1, <1>8, <1>9, SendSound
  <1>11. sent' \in Known
    BY <1>1, <1>5, <1>8, RecordedType, OffersAreUnits
  <1>12. /\ SoundStores(distilled, roster, memory')
         /\ SoundStores(distilled, roster, file')
    BY <1>1, <1>3, <1>6, StoreReplaced DEF Inv
  <1>13. Books'
    BY <1>1, <1>11 DEF Inv, Books, join
  <1> QED BY <1>1, <1>10, <1>12, <1>13 DEF Inv, join

LEMMA RefuseInv ==
    ASSUME Inv, NEW l \in Links, RefuseSync(l)
    PROVE  Inv'
  <1> DEFINE w == Arriving(l)
             b == Back(l)
             t == [type |-> "rejected", units |-> {}]
  <1>1. /\ wire' = [w EXCEPT ![b] = Append(@, t)]
        /\ UNCHANGED <<file, memory, sent, join, standing, distilled, faults, lost>>
        /\ wire[l] # <<>>
    BY DEF RefuseSync, Arrives
  <1>2. SoundWire(distilled, roster, w)
    BY <1>1, TailSound DEF Inv, Arriving
  <1>3. t \in Message /\ SoundBatch(distilled, roster, b, t.units)
    BY DEF Message, SoundBatch
  <1>4. b \in Links
    BY LinkEnds
  <1> HIDE DEF w, b, t
  <1>5. /\ w \in [Links -> Seq(Message)]
        /\ w[b] \in Seq(Message)
        /\ \A i \in 1 .. Len(w[b]) : SoundBatch(distilled, roster, b, w[b][i].units)
    BY <1>2, <1>4 DEF SoundWire
  <1> DEFINE s == Append(w[b], t)
  <1>6. /\ s \in Seq(Message)
        /\ \A i \in 1 .. Len(s) : SoundBatch(distilled, roster, b, s[i].units)
    BY <1>3, <1>5, AppendSound
  <1>7. wire' = [w EXCEPT ![b] = s]
    BY <1>1, <1>5
  <1> HIDE DEF s
  <1>8. SoundWire(distilled, roster, wire')
    BY <1>2, <1>5, <1>6, <1>7 DEF SoundWire
  <1>9. Books'
    BY <1>1 DEF Inv, Books, join
  <1> QED BY <1>1, <1>8, <1>9 DEF Inv, join

LEMMA RejectedInv ==
    ASSUME Inv, NEW l \in Links, HearRejected(l)
    PROVE  Inv'
  <1>1. SoundWire(distilled, roster, wire')
    BY TailSound DEF HearRejected, Arrives, Arriving, Inv
  <1>2. Books'
    BY DEF HearRejected, AfterRejection, Inv, Books, join
  <1> QED BY <1>1, <1>2 DEF Inv, HearRejected, join

(* What joining leaves sound: everything, roles being only ever given.     *)
LEMMA JoinKeeps ==
    ASSUME Inv, Books', UNCHANGED <<file, memory, wire, distilled>>,
           \A j \in Joiners : roster[j] # "none" => roster'[j] = roster[j]
    PROVE  Inv'
  <1>1. /\ distilled \in Counts /\ roster \in Rosters /\ roster' \in Rosters
        /\ \A m \in Machines : distilled[m] <= distilled[m]
    BY DEF Inv, Books, Counts
  <1>2. Later(distilled, distilled, roster, roster')
    BY <1>1 DEF Later
  <1>3. /\ SoundStores(distilled, roster', file)
        /\ SoundStores(distilled, roster', memory)
        /\ SoundWire(distilled, roster', wire)
    BY <1>1, <1>2, StoresLast, WireLasts DEF Inv
  <1> QED BY <1>3 DEF Inv

LEMMA DecideInv ==
    ASSUME Inv, NEW j \in Askers, NEW grant \in BOOLEAN, DecideJoin(j, grant)
    PROVE  Inv'
  <1> DEFINE admits == IF grant THEN "reader" ELSE "contributor"
             queues == roster[j] = "none" /\ ~grant /\ JoinPolicy = "ask"
  <1>1. /\ roster' = IF queues \/ roster[j] # "none" THEN roster
                     ELSE [roster EXCEPT ![j] = admits]
        /\ asked' = IF queues THEN asked \cup {j} ELSE asked
        /\ answers' = [answers EXCEPT ![j] = @ \cup {IF queues THEN "pending" ELSE roster'[j]}]
        /\ UNCHANGED <<file, memory, sent, wire, denied, membership, standing,
                       distilled, faults, lost>>
    BY DEF DecideJoin
  <1>2. /\ j \in Joiners /\ roster \in Rosters
        /\ answers \in [Joiners -> SUBSET (Standings \ {"none"})]
        /\ admits \in {"reader", "contributor"}
    BY HiveAssumption DEF Inv, Books
  <1> HIDE DEF admits
  <1>3. /\ roster' \in Rosters
        /\ ~queues => roster'[j] \in Standings \ {"none"}
    BY <1>1, <1>2 DEF Rosters, Standings
  <1>4. answers' \in [Joiners -> SUBSET (Standings \ {"none"})]
    BY <1>1, <1>2, <1>3 DEF Standings
  <1>5. \A i \in Joiners : roster[i] # "none" => roster'[i] = roster[i]
    BY <1>1, <1>2 DEF Rosters, Standings
  <1>6. asked' \subseteq Joiners /\ denied' \subseteq asked'
    BY <1>1, <1>2 DEF Inv, Books
  <1>7. Books'
    BY <1>1, <1>3, <1>4, <1>6 DEF Inv, Books
  <1> QED BY <1>1, <1>5, <1>7, JoinKeeps

LEMMA ApproveInv ==
    ASSUME Inv, NEW j \in Joiners, Approve(j)
    PROVE  Inv'
  <1>1. roster' \in Rosters
    BY DEF Approve, Inv, Books, Rosters, Standings
  <1>2. answers' \in [Joiners -> SUBSET (Standings \ {"none"})]
    BY DEF Approve, Inv, Books, Standings
  <1>3. \A i \in Joiners : roster[i] # "none" => roster'[i] = roster[i]
    BY DEF Approve, Pending, Inv, Books, Rosters
  <1>4. Books'
    BY <1>1, <1>2 DEF Approve, Inv, Books
  <1> QED BY <1>3, <1>4, JoinKeeps DEF Approve

LEMMA DenyInv ==
    ASSUME Inv, NEW j \in Joiners, Deny(j)
    PROVE  Inv'
  <1>1. Books'
    BY DEF Deny, Pending, Inv, Books
  <1> QED BY <1>1, JoinKeeps DEF Deny

LEMMA AnswerInv ==
    ASSUME Inv, NEW j \in Joiners, ApplyJoinResult(j)
    PROVE  Inv'
  <1>1. PICK a \in answers[j] :
          /\ membership' = [membership EXCEPT ![j] = a]
          /\ answers' = [answers EXCEPT ![j] = @ \ {a}]
          /\ UNCHANGED <<file, memory, sent, wire, roster, asked, denied, standing,
                         distilled, faults, lost>>
    BY DEF ApplyJoinResult
  <1>2. /\ answers \in [Joiners -> SUBSET (Standings \ {"none"})]
        /\ membership \in [Machines -> Standings]
    BY DEF Inv, Books
  <1>3. answers[j] \subseteq Standings \ {"none"}
    BY <1>2
  <1>4. membership' \in [Machines -> Standings]
    BY <1>1, <1>2, <1>3
  <1>5. answers' \in [Joiners -> SUBSET (Standings \ {"none"})]
    BY <1>1, <1>2, <1>3
  <1>6. Books'
    BY <1>1, <1>4, <1>5 DEF Inv, Books
  <1> QED BY <1>1, <1>6, JoinKeeps

LEMMA DistillInv ==
    ASSUME Inv, NEW m \in Machines, NEW k \in Keys, Distill(m, k)
    PROVE  Inv'
  <1> DEFINE old == file[m][k]
             raised == [old EXCEPT !.version = @ + 1]
             fresh == [source |-> m, key |-> k, no |-> distilled[m] + 1, version |-> 1]
             unit == IF old # NoUnit /\ old.source = m THEN raised ELSE fresh
  <1>1. /\ distilled[m] < MaxDistilled
        /\ file' = [file EXCEPT ![m][k] = unit]
        /\ distilled' = [distilled EXCEPT ![m] = @ + 1]
        /\ UNCHANGED <<memory, sent, wire, join, standing, faults, lost>>
    BY DEF Distill
  <1>2. /\ distilled \in Counts /\ roster \in Rosters
        /\ distilled[m] \in 0 .. MaxDistilled /\ MaxDistilled \in Nat
    BY HiveAssumption DEF Inv, Books, Counts
  <1>3. distilled' \in Counts /\ distilled'[m] = distilled[m] + 1
    BY <1>1, <1>2 DEF Counts
  <1>4. Later(distilled, distilled', roster, roster)
    BY <1>1, <1>2 DEF Later, Counts
  <1>5. /\ SoundStores(distilled', roster, file)
        /\ SoundStores(distilled', roster, memory)
        /\ SoundWire(distilled', roster, wire)
    BY <1>2, <1>3, <1>4, StoresLast, WireLasts DEF Inv
  <1>6. Sound(distilled', roster, m, unit)
    <2>1. CASE old # NoUnit /\ old.source = m
      <3>1. Sound(distilled, roster, m, old)
        BY <2>1 DEF Inv, SoundStores, SoundStore
      <3>2. /\ old \in Unit /\ old.no <= distilled[m] /\ old.version <= distilled[m]
            /\ old.no \in Nat /\ old.version \in 1 .. MaxDistilled
        BY <2>1, <3>1, HiveAssumption DEF Sound, Unit
      <3> HIDE DEF old
      <3>3. /\ raised.source = m /\ raised.no = old.no
            /\ raised.version = old.version + 1
        BY <2>1, <3>2 DEF Unit
      <3>4. old.version + 1 \in 1 .. MaxDistilled
        BY <1>1, <1>2, <3>2
      <3>5. raised \in Unit
        BY <3>2, <3>4 DEF Unit
      <3>6. raised.no <= distilled'[m] /\ raised.version <= distilled'[m]
        BY <1>2, <1>3, <3>2, <3>3
      <3>7. unit = raised
        BY <2>1
      <3> HIDE DEF raised, unit
      <3>8. Sound(distilled', roster, m, raised)
        BY <3>3, <3>5, <3>6 DEF Sound, MayHold
      <3> QED BY <3>7, <3>8
    <2>2. CASE ~(old # NoUnit /\ old.source = m)
      <3>1. /\ distilled[m] + 1 \in 1 .. MaxDistilled /\ 1 \in 1 .. MaxDistilled
            /\ 1 <= distilled[m] + 1
        BY <1>1, <1>2
      <3>2. fresh \in Unit
        BY <3>1 DEF Unit
      <3>3. Sound(distilled', roster, m, fresh)
        BY <1>2, <1>3, <3>1, <3>2 DEF Sound, MayHold
      <3> QED BY <2>2, <3>3
    <2> QED BY <2>1, <2>2
  <1> DEFINE store == [file[m] EXCEPT ![k] = unit]
  <1> HIDE DEF unit
  <1>7. file' = [file EXCEPT ![m] = store]
    BY <1>1 DEF Inv, SoundStores
  <1>8. SoundStore(distilled', roster, m, store)
    <2>1. SoundStore(distilled', roster, m, file[m]) /\ unit \in Unit
      BY <1>5, <1>6 DEF SoundStores, Sound
    <2>2. store \in Store
      BY <2>1 DEF SoundStore, Store
    <2>3. ASSUME NEW key \in Keys, store[key] # NoUnit
          PROVE  Sound(distilled', roster, m, store[key])
      BY <1>6, <2>1, <2>3 DEF SoundStore, Store
    <2> QED BY <2>2, <2>3 DEF SoundStore
  <1> HIDE DEF store
  <1>9. SoundStores(distilled', roster, file')
    BY <1>5, <1>7, <1>8, StoreReplaced
  <1>10. Books'
    BY <1>1, <1>3 DEF Inv, Books, join
  <1> QED BY <1>1, <1>5, <1>9, <1>10 DEF Inv, join

(* What is lost was sound; nothing is sounder.                             *)
LEMMA DropSound ==
    ASSUME Inv, NEW links, links \subseteq Links, Drop(links)
    PROVE  /\ SoundWire(distilled, roster, wire')
           /\ faults' \in 0 .. MaxFaults /\ lost' \subseteq Links
  <1>1. /\ faults < MaxFaults /\ faults' = faults + 1
        /\ wire' = [l \in Links |-> IF l \in links THEN <<>> ELSE wire[l]]
        /\ lost' \subseteq lost \cup links
    BY DEF Drop
  <1>2. faults' \in 0 .. MaxFaults
    BY <1>1, HiveAssumption DEF Inv, Books
  <1>3. lost' \subseteq Links
    BY <1>1 DEF Inv, Books
  <1>4. SoundWire(distilled, roster, wire)
    BY DEF Inv
  <1>5. ASSUME NEW l \in Links
        PROVE  /\ wire'[l] \in Seq(Message)
               /\ \A i \in 1 .. Len(wire'[l]) : SoundBatch(distilled, roster, l, wire'[l][i].units)
    <2>1. CASE l \in links
      BY <1>1, <2>1
    <2>2. CASE l \notin links
      BY <1>1, <1>4, <2>2 DEF SoundWire
    <2> QED BY <2>1, <2>2
  <1>6. wire' = [l \in Links |-> wire'[l]]
    BY <1>1
  <1>7. wire' \in [Links -> Seq(Message)]
    BY <1>5, <1>6
  <1> QED BY <1>2, <1>3, <1>5, <1>7 DEF SoundWire

LEMMA CutInv ==
    ASSUME Inv, NEW j \in Joiners, Cut(j)
    PROVE  Inv'
  <1>1. {<<Host, j>>, <<j, Host>>} \subseteq Links
    BY DEF Links
  <1>2. /\ SoundWire(distilled, roster, wire')
        /\ faults' \in 0 .. MaxFaults /\ lost' \subseteq Links
    BY <1>1, DropSound DEF Cut
  <1>3. Books'
    BY <1>2 DEF Cut, Inv, Books, join
  <1> QED BY <1>2, <1>3 DEF Cut, Inv, join

LEMMA RestartInv ==
    ASSUME Inv, NEW m \in Machines, Restart(m)
    PROVE  Inv'
  <1>1. /\ SoundWire(distilled, roster, wire')
        /\ faults' \in 0 .. MaxFaults /\ lost' \subseteq Links
    BY DropSound DEF Restart
  <1>2. SoundStores(distilled, roster, memory')
    <2>1. SoundStore(distilled, roster, m, file[m])
      BY DEF Inv, SoundStores
    <2> QED BY <2>1, StoreReplaced DEF Inv, Restart
  <1>3. standing' \in [Machines -> Standings]
    BY DEF Restart, Inv, Books
  <1>4. Books'
    BY <1>1, <1>3 DEF Restart, Inv, Books, join
  <1> QED BY <1>1, <1>2, <1>4 DEF Restart, Inv, join

LEMMA NextInv == Inv /\ [Next]_vars => Inv'
  <1> SUFFICES ASSUME Inv, [Next]_vars PROVE Inv'
    OBVIOUS
  <1>1. ASSUME NEW m \in Machines, Tick(m) PROVE Inv'
    BY <1>1, TickInv
  <1>2. ASSUME NEW m \in Machines, Restart(m) PROVE Inv'
    BY <1>2, RestartInv
  <1>3. ASSUME NEW m \in Machines, NEW k \in Keys, Distill(m, k) PROVE Inv'
    BY <1>3, DistillInv
  <1>4. ASSUME NEW l \in Links, AcceptSync(l) \/ RefuseSync(l) \/ HearRejected(l) PROVE Inv'
    BY <1>4, AcceptInv, RefuseInv, RejectedInv
  <1>5. ASSUME NEW j \in Askers, NEW grant \in BOOLEAN, DecideJoin(j, grant) PROVE Inv'
    BY <1>5, DecideInv
  <1>6. ASSUME NEW j \in Joiners, Approve(j) \/ Deny(j) \/ ApplyJoinResult(j) \/ Cut(j)
        PROVE  Inv'
    BY <1>6, ApproveInv, DenyInv, AnswerInv, CutInv
  <1>7. CASE UNCHANGED vars
    BY <1>7 DEF vars, join, Inv, Books
  <1> QED BY <1>1, <1>2, <1>3, <1>4, <1>5, <1>6, <1>7 DEF Next

LEMMA AlwaysInv == Spec => []Inv
  BY InitInv, NextInv, PTL DEF Spec

-----------------------------------------------------------------------------
(* The theorems.                                                            *)

(* Every store, batch, roster and standing is one the program can be in,   *)
(* and no identity or version outgrows the distillations it counts (hive/  *)
(* mod.rs, store.rs and gossip.rs: the records they exchange).              *)
THEOREM TypeCorrect == Spec => []TypeOK
  <1>1. Inv => TypeOK
    <2> SUFFICES ASSUME Inv PROVE TypeOK
      OBVIOUS
    <2>1. \A l \in Links : \A i \in DOMAIN wire[l] :
            wire[l][i] \in [type : {"sync", "rejected"}, units : SUBSET Unit]
      <3> SUFFICES ASSUME NEW l \in Links, NEW i \in DOMAIN wire[l]
                   PROVE  wire[l][i] \in Message
        BY DEF Message
      <3>1. wire[l] \in Seq(Message)
        BY DEF Inv, SoundWire
      <3> QED BY <3>1
    <2> QED BY <2>1 DEF Inv, Books, SoundStores, TypeOK, Known, Rosters, Counts
  <1> QED BY <1>1, AlwaysInv, PTL

(* Over any number of joiners, keys, faults and hops, what the others know *)
(* reaches only members, and what a reader or an outsider distils reaches  *)
(* nobody, in memory or on disk (hivesync.rs: may_contribute, may_send_to). *)
THEOREM HiveIsClosed == Spec => []MembersOnly
  <1>1. Inv => MembersOnly
    <2> SUFFICES ASSUME Inv, NEW j \in Joiners, NEW k \in Keys, NEW store \in {memory, file}
                 PROVE  /\ roster[j] = "none" => store[j][k] = NoUnit \/ store[j][k].source = j
                        /\ roster[j] # "contributor" =>
                             \A m \in Machines \ {j} :
                                store[m][k] # NoUnit => store[m][k].source # j
      BY DEF MembersOnly
    <2>1. \A m \in Machines : store[m][k] # NoUnit => MayHold(roster, m, store[m][k])
      BY DEF Inv, SoundStores, SoundStore, Sound
    <2>2. j \in Machines
      BY DEF Machines
    <2> QED BY <2>1, <2>2 DEF MayHold
  <1> QED BY <1>1, AlwaysInv, PTL
=============================================================================
