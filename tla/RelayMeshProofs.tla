-------------------------- MODULE RelayMeshProofs --------------------------
(***************************************************************************)
(* RelayMesh for any number of sockets and faults: its types, that the two *)
(* ends agree once nothing is in flight, and that no reader is left behind. *)
(*                                                                         *)
(* Both rest on what a machine may do with an end it no longer answers on. *)
(* AddPeer shuts whichever connection loses, so an end with a reader that  *)
(* is neither shut nor held nor in the registry was let go by              *)
(* MarkDisconnected, and that only when the path was cut or the other end  *)
(* was not open: had the other machine only let go of it as well, it would *)
(* have been the first to do so.  This is LetGo; Open never comes back for  *)
(* the socket it was lost for, so LetGo is inductive.                       *)
(***************************************************************************)
EXTENDS RelayMesh, TLAPS

End == [opener : Node, held : SUBSET Node, reader : SUBSET Node,
        shut : SUBSET Node, cut : BOOLEAN]
Entry == [sock : Sockets \cup {NoSocket}, init : BOOLEAN, conn : BOOLEAN]

(* A connection is over a socket, and a placeholder over none.             *)
OverSocket(e) == e \in Entry /\ (e.conn => e.sock \in Sockets)

(* n has a reader on s that nothing will end.                              *)
Lingers(sk, n, s) == n \in sk[s].reader /\ n \notin sk[s].shut /\ n \notin sk[s].held

Registers(en, n, s) == en[n].conn /\ en[n].sock = s

IsOpen(sk, en, n, s) ==
    /\ n \notin sk[s].shut
    /\ n \in sk[s].reader \cup sk[s].held \/ Registers(en, n, s)

LetGo(sk, en) ==
    \A n \in Node, s \in Sockets :
        Lingers(sk, n, s) =>
            Registers(en, n, s) \/ sk[s].cut \/ ~ IsOpen(sk, en, Other(n), s)

Inv ==
    /\ TypeOK
    /\ \A n \in Node : OverSocket(entry[n])
    /\ LetGo(sock, entry)

-----------------------------------------------------------------------------
LEMMA Others ==
    ASSUME NEW n \in Node
    PROVE  Other(n) \in Node /\ Other(n) # n /\ Other(Other(n)) = n
  BY MeshAssumption DEF Node, Other

LEMMA BlankEnd == Blank \in End /\ \A n \in Node : n \notin Blank.reader
  BY DEF Blank, End, Node

LEMMA EntryTypes ==
    /\ OverSocket(NoEntry) /\ OverSocket(Placeholder)
    /\ \A s \in Sockets, b \in BOOLEAN : OverSocket(Connection(s, b))
  BY DEF OverSocket, Entry, NoEntry, Placeholder, Connection

(* A socket that is gone lingers nowhere.                                  *)
LEMMA SettledFacts ==
    ASSUME NEW sk \in [Sockets -> End], NEW en, LetGo(sk, en)
    PROVE  Settled(sk, en) \in [Sockets -> End] /\ LetGo(Settled(sk, en), en)
  <1> DEFINE sd == Settled(sk, en)
  <1>1. ASSUME NEW s \in Sockets
        PROVE  sd[s] = sk[s] \/ sd[s] = Blank
    BY DEF Settled
  <1>2. sd = [s \in Sockets |-> sd[s]]
    BY DEF Settled
  <1> HIDE DEF sd
  <1>3. sd \in [Sockets -> End]
    BY <1>1, <1>2, BlankEnd
  <1>4. LetGo(sd, en)
    BY <1>1, BlankEnd DEF LetGo, Lingers, IsOpen
  <1> QED BY <1>3, <1>4 DEF sd

(* LetGo while n is about to answer on new: as if it did already.          *)
Adding(sk, n, new) ==
    \A m \in Node, s \in Sockets :
        Lingers(sk, m, s) =>
            \/ Registers(entry, m, s)
            \/ sk[s].cut
            \/ m = n /\ new.conn /\ new.sock = s
            \/ /\ ~ IsOpen(sk, entry, Other(m), s)
               /\ Other(m) = n /\ new.conn /\ new.sock = s => n \in sk[s].shut

LEMMA AddPeerSound ==
    ASSUME NEW sk \in [Sockets -> End], NEW n \in Node, NEW new,
           OverSocket(new), \A m \in Node : OverSocket(entry[m]),
           entry \in [Node -> Entry],
           Adding(sk, n, new), AddPeer(n, new, sk)
    PROVE  /\ sock' \in [Sockets -> End] /\ entry' \in [Node -> Entry]
           /\ \A m \in Node : OverSocket(entry'[m])
           /\ LetGo(sock', entry')
  <1> DEFINE sh == [s \in Sockets |->
                      IF s \in Loser(n, new) THEN [sk[s] EXCEPT !.shut = @ \cup {n}]
                                             ELSE sk[s]]
  <1>1. /\ entry' = IF Keeps(n, new) THEN entry ELSE [entry EXCEPT ![n] = new]
        /\ sock' = Settled(sh, entry')
    BY DEF AddPeer
  <1>2. ASSUME NEW s \in Sockets
        PROVE  /\ sh[s] \in End
               /\ sh[s].reader = sk[s].reader /\ sh[s].held = sk[s].held
               /\ sh[s].cut = sk[s].cut /\ sk[s].shut \subseteq sh[s].shut
               /\ s \in Loser(n, new) => n \in sh[s].shut
    <2>1. sk[s] \in End
      OBVIOUS
    <2>2. CASE s \in Loser(n, new)
      BY <2>1, <2>2 DEF End
    <2>3. CASE s \notin Loser(n, new)
      BY <2>1, <2>3
    <2> QED BY <2>2, <2>3
  <1>3. sh \in [Sockets -> End]
    BY <1>2
  <1> HIDE DEF sh
  <1>4. entry' \in [Node -> Entry] /\ \A m \in Node : OverSocket(entry'[m])
    BY <1>1 DEF OverSocket
  <1>5. LetGo(sh, entry')
    <2> SUFFICES ASSUME NEW m \in Node, NEW s \in Sockets, Lingers(sh, m, s)
                 PROVE  \/ Registers(entry', m, s) \/ sh[s].cut
                        \/ ~ IsOpen(sh, entry', Other(m), s)
      BY DEF LetGo
    <2>1. Lingers(sk, m, s)
      BY <1>2 DEF Lingers
    <2>2. ASSUME ~ IsOpen(sk, entry, Other(m), s)
          PROVE  ~ IsOpen(sh, entry, Other(m), s)
      BY <1>2, <2>2 DEF IsOpen
    <2>3. CASE Keeps(n, new)
      <3>1. entry' = entry
        BY <1>1, <2>3
      <3>2. ~ (m = n /\ new.conn /\ new.sock = s)
        <4>1. SUFFICES ASSUME m = n, new.sock = s PROVE FALSE
          OBVIOUS
        <4>2. s \in Loser(n, new)
          BY <2>3, <4>1 DEF Loser
        <4> QED BY <1>2, <4>1, <4>2 DEF Lingers
      <3> QED BY <1>2, <2>1, <2>2, <3>1, <3>2 DEF Adding
    <2>4. CASE ~ Keeps(n, new)
      <3>1. entry' = [entry EXCEPT ![n] = new]
        BY <1>1, <2>4
      <3>2. CASE Registers(entry, m, s)
        <4>1. m # n
          <5>1. SUFFICES ASSUME m = n PROVE FALSE
            OBVIOUS
          <5>2. s \in Loser(n, new)
            BY <2>4, <3>2, <5>1 DEF Loser, Registers
          <5> QED BY <1>2, <5>1, <5>2 DEF Lingers
        <4> QED BY <3>1, <3>2, <4>1 DEF Registers
      <3>3. CASE sk[s].cut
        BY <1>2, <3>3
      <3>4. CASE m = n /\ new.conn /\ new.sock = s
        BY <3>1, <3>4 DEF Registers
      <3>5. CASE /\ ~ IsOpen(sk, entry, Other(m), s)
                 /\ Other(m) = n /\ new.conn /\ new.sock = s => n \in sk[s].shut
        <4>1. CASE Other(m) # n
          <5>1. Registers(entry', Other(m), s) = Registers(entry, Other(m), s)
            BY <3>1, <4>1, Others DEF Registers
          <5> QED BY <2>2, <3>5, <5>1 DEF IsOpen
        <4>2. CASE Other(m) = n
          <5>1. Registers(entry', n, s) => new.conn /\ new.sock = s
            BY <3>1 DEF Registers
          <5> QED BY <1>2, <3>5, <4>2, <5>1 DEF IsOpen
        <4> QED BY <4>1, <4>2
      <3> QED BY <2>1, <3>2, <3>3, <3>4, <3>5 DEF Adding
    <2> QED BY <2>3, <2>4
  <1> QED BY <1>1, <1>3, <1>4, <1>5, SettledFacts

(* What Inv says in the terms of the lemmas.                               *)
LEMMA InvFacts ==
    ASSUME Inv
    PROVE  /\ sock \in [Sockets -> End] /\ entry \in [Node -> Entry]
           /\ \A m \in Node : OverSocket(entry[m])
           /\ LetGo(sock, entry)
           /\ up \in [Node -> BOOLEAN] /\ faults \in 0 .. MaxFaults
           /\ dial \in [Node -> {"off", "dialling", "adding", "failed", "done"}]
  BY DEF Inv, TypeOK, End, Entry

LEMMA InvHolds ==
    ASSUME sock' \in [Sockets -> End], entry' \in [Node -> Entry],
           \A m \in Node : OverSocket(entry'[m]),
           LetGo(sock', entry'),
           up' \in [Node -> BOOLEAN], faults' \in 0 .. MaxFaults,
           dial' \in [Node -> {"off", "dialling", "adding", "failed", "done"}]
    PROVE  Inv'
  BY DEF Inv, TypeOK, End, Entry

(* A socket nobody uses lingers nowhere, and no entry is over it.          *)
LEMMA UnusedFacts ==
    ASSUME NEW s \in Unused
    PROVE  /\ s \in Sockets /\ sock[s].reader = {}
           /\ \A n \in Node : entry[n].sock # s
  BY DEF Unused, InUse

LEMMA OpenedEnd ==
    ASSUME NEW n \in Node, NEW holders, holders \subseteq Node
    PROVE  /\ Opened(n, holders) \in End
           /\ Opened(n, holders).held = holders
           /\ Opened(n, holders).shut = {}
  BY DEF Opened, End

-----------------------------------------------------------------------------
(* One lemma per action.                                                   *)

LEMMA InitInv == Init => Inv
  <1> SUFFICES ASSUME Init PROVE Inv
    OBVIOUS
  <1>1. TypeOK
    BY BlankEnd, MeshAssumption DEF Init, TypeOK, End, NoEntry
  <1>2. \A n \in Node : OverSocket(entry[n])
    BY EntryTypes DEF Init
  <1>3. LetGo(sock, entry)
    BY BlankEnd DEF Init, LetGo, Lingers
  <1> QED BY <1>1, <1>2, <1>3 DEF Inv

LEMMA StartInv == ASSUME Inv, NEW n \in Node, Start(n) PROVE Inv'
  <1>1. up' \in [Node -> BOOLEAN]
    BY InvFacts DEF Start
  <1>2. dial' \in [Node -> {"off", "dialling", "adding", "failed", "done"}]
    BY InvFacts DEF Start
  <1> QED BY <1>1, <1>2, InvFacts, InvHolds DEF Start

LEMMA DialInv == ASSUME Inv, NEW n \in Node, Dial(n) PROVE Inv'
  <1>1. PICK s \in Unused :
          /\ sock' = [sock EXCEPT ![s] = Opened(n, Node)]
          /\ dial' = [dial EXCEPT ![n] = "adding"]
          /\ UNCHANGED <<up, entry, faults>>
    <2> DEFINE s == CHOOSE x \in Unused : TRUE
    <2>1. s \in Unused
      BY DEF Dial
    <2> QED BY <2>1 DEF Dial
  <1>2. s \in Sockets
    BY UnusedFacts
  <1>3. sock' \in [Sockets -> End]
    BY <1>1, <1>2, InvFacts, OpenedEnd
  <1>4. LetGo(sock', entry')
    <2>1. \A m \in Node : ~ Lingers(sock', m, s)
      BY <1>1, <1>2, InvFacts, OpenedEnd DEF Lingers
    <2>2. \A x \in Sockets : x # s => sock'[x] = sock[x]
      BY <1>1, InvFacts
    <2> QED BY <1>1, <2>1, <2>2, InvFacts DEF LetGo, Lingers, IsOpen
  <1>5. dial' \in [Node -> {"off", "dialling", "adding", "failed", "done"}]
    BY <1>1, InvFacts
  <1> QED BY <1>1, <1>3, <1>4, <1>5, InvFacts, InvHolds

LEMMA DialFailsInv == ASSUME Inv, NEW n \in Node, DialFails(n) PROVE Inv'
  <1>1. dial' \in [Node -> {"off", "dialling", "adding", "failed", "done"}]
    BY InvFacts DEF DialFails
  <1> QED BY <1>1, InvFacts, InvHolds DEF DialFails

LEMMA AddPlaceholderInv == ASSUME Inv, NEW n \in Node, AddPlaceholder(n) PROVE Inv'
  <1>1. Adding(sock, n, Placeholder)
    BY InvFacts DEF Adding, LetGo, Placeholder
  <1>2. /\ sock' \in [Sockets -> End] /\ entry' \in [Node -> Entry]
        /\ \A m \in Node : OverSocket(entry'[m])
        /\ LetGo(sock', entry')
    BY <1>1, InvFacts, EntryTypes, AddPeerSound DEF AddPlaceholder
  <1>3. dial' \in [Node -> {"off", "dialling", "adding", "failed", "done"}]
    BY InvFacts DEF AddPlaceholder
  <1> QED BY <1>2, <1>3, InvFacts, InvHolds DEF AddPlaceholder

LEMMA AddHeldInv ==
    ASSUME Inv, NEW n \in Node, NEW s \in Sockets, AddHeld(n, s)
    PROVE  Inv'
  <1> DEFINE opened == sock[s].opener = n
             new == Connection(s, opened)
             sk == [sock EXCEPT ![s].held = @ \ {n}]
  <1>1. /\ n \in sock[s].held
        /\ dial' = [dial EXCEPT ![n] = IF opened THEN "done" ELSE @]
        /\ AddPeer(n, new, sk)
        /\ UNCHANGED <<up, faults>>
    BY DEF AddHeld
  <1>2. sock[s] \in End
    BY InvFacts
  <1>3. /\ sk[s] \in End
        /\ sk[s].held = sock[s].held \ {n} /\ sk[s].reader = sock[s].reader
        /\ sk[s].shut = sock[s].shut /\ sk[s].cut = sock[s].cut
    BY <1>2, InvFacts DEF End
  <1>4. \A x \in Sockets : x # s => sk[x] = sock[x]
    BY InvFacts
  <1>5. sk \in [Sockets -> End]
    <2>1. sk = [x \in Sockets |-> sk[x]]
      BY InvFacts
    <2> HIDE DEF sk
    <2> QED BY <1>3, <1>4, <2>1, InvFacts
  <1>6. OverSocket(new) /\ new.conn /\ new.sock = s
    BY EntryTypes DEF Connection
  <1> HIDE DEF new, sk
  <1>7. Adding(sk, n, new)
    <2> SUFFICES ASSUME NEW m \in Node, NEW x \in Sockets, Lingers(sk, m, x)
                 PROVE  \/ Registers(entry, m, x)
                        \/ sk[x].cut
                        \/ m = n /\ new.conn /\ new.sock = x
                        \/ /\ ~ IsOpen(sk, entry, Other(m), x)
                           /\ Other(m) = n /\ new.conn /\ new.sock = x => n \in sk[x].shut
      BY DEF Adding
    <2>1. CASE x # s
      <3>1. sk[x] = sock[x]
        BY <1>4, <2>1
      <3>2. \/ Registers(entry, m, x) \/ sock[x].cut
            \/ ~ IsOpen(sock, entry, Other(m), x)
        BY <3>1, InvFacts DEF LetGo, Lingers
      <3> QED BY <1>6, <2>1, <3>1, <3>2 DEF IsOpen
    <2>2. CASE x = s /\ m = n
      BY <1>6, <2>2
    <2>3. CASE x = s /\ m # n
      <3>1. Other(m) = n
        BY <2>3 DEF Node, Other
      <3>2. Lingers(sock, m, s)
        BY <1>3, <2>3 DEF Lingers
      <3>3. \/ Registers(entry, m, s) \/ sock[s].cut
            \/ ~ IsOpen(sock, entry, n, s)
        BY <3>1, <3>2, InvFacts DEF LetGo
      <3>4. ~ IsOpen(sock, entry, n, s) => n \in sock[s].shut
        BY <1>1 DEF IsOpen
      <3> QED BY <1>3, <2>3, <3>1, <3>3, <3>4 DEF IsOpen
    <2> QED BY <2>1, <2>2, <2>3
  <1>8. /\ sock' \in [Sockets -> End] /\ entry' \in [Node -> Entry]
        /\ \A m \in Node : OverSocket(entry'[m])
        /\ LetGo(sock', entry')
    BY <1>1, <1>5, <1>6, <1>7, InvFacts, AddPeerSound
  <1>9. dial' \in [Node -> {"off", "dialling", "adding", "failed", "done"}]
    BY <1>1, InvFacts
  <1> QED BY <1>1, <1>8, <1>9, InvFacts, InvHolds

LEMMA ReconnectInv == ASSUME Inv, NEW n \in Node, Reconnect(n) PROVE Inv'
  <1>1. PICK s \in Unused :
          /\ AddPeer(n, Connection(s, TRUE), [sock EXCEPT ![s] = Opened(n, {Other(n)})])
          /\ UNCHANGED <<up, dial, faults>>
    <2> DEFINE s == CHOOSE x \in Unused : TRUE
    <2>1. s \in Unused
      BY DEF Reconnect
    <2> QED BY <2>1 DEF Reconnect
  <1> DEFINE new == Connection(s, TRUE)
             fresh == Opened(n, {Other(n)})
             sk == [sock EXCEPT ![s] = fresh]
  <1>2. /\ s \in Sockets /\ \A m \in Node : entry[m].sock # s
    BY UnusedFacts
  <1>3. fresh \in End /\ fresh.held = {Other(n)}
    BY OpenedEnd, Others
  <1>4. /\ sk \in [Sockets -> End] /\ sk[s] = fresh
        /\ \A x \in Sockets : x # s => sk[x] = sock[x]
    BY <1>2, <1>3, InvFacts
  <1>5. OverSocket(new) /\ new.conn /\ new.sock = s
    BY <1>2, EntryTypes DEF Connection
  <1> HIDE DEF new, sk, fresh
  <1>6. Adding(sk, n, new)
    <2> SUFFICES ASSUME NEW m \in Node, NEW x \in Sockets, Lingers(sk, m, x)
                 PROVE  \/ Registers(entry, m, x)
                        \/ sk[x].cut
                        \/ m = n /\ new.conn /\ new.sock = x
                        \/ /\ ~ IsOpen(sk, entry, Other(m), x)
                           /\ Other(m) = n /\ new.conn /\ new.sock = x => n \in sk[x].shut
      BY DEF Adding
    <2>1. CASE x # s
      BY <1>4, <1>5, <2>1, InvFacts DEF LetGo, Lingers, IsOpen
    <2>2. CASE x = s
      <3>1. m # Other(n)
        BY <1>3, <1>4, <2>2 DEF Lingers
      <3>2. m = n
        BY <3>1 DEF Node, Other
      <3> QED BY <1>5, <2>2, <3>2
    <2> QED BY <2>1, <2>2
  <1>7. AddPeer(n, new, sk)
    BY <1>1 DEF new, sk, fresh
  <1>8. /\ sock' \in [Sockets -> End] /\ entry' \in [Node -> Entry]
        /\ \A m \in Node : OverSocket(entry'[m])
        /\ LetGo(sock', entry')
    BY <1>4, <1>5, <1>6, <1>7, InvFacts, AddPeerSound
  <1> QED BY <1>1, <1>8, InvFacts, InvHolds

LEMMA ReaderEndsInv ==
    ASSUME Inv, NEW n \in Node, NEW s \in Sockets, ReaderEnds(n, s)
    PROVE  Inv'
  <1> DEFINE sk == [sock EXCEPT ![s].reader = @ \ {n}]
  <1>1. sock' = Settled(sk, entry) /\ UNCHANGED <<up, dial, entry, faults>>
    BY DEF ReaderEnds
  <1>2. sock[s] \in End
    BY InvFacts
  <1>3. /\ sk[s] \in End
        /\ sk[s].reader = sock[s].reader \ {n} /\ sk[s].held = sock[s].held
        /\ sk[s].shut = sock[s].shut /\ sk[s].cut = sock[s].cut
    BY <1>2, InvFacts DEF End
  <1>4. \A x \in Sockets : x # s => sk[x] = sock[x]
    BY InvFacts
  <1>5. sk \in [Sockets -> End]
    <2>1. sk = [x \in Sockets |-> sk[x]]
      BY InvFacts
    <2> HIDE DEF sk
    <2> QED BY <1>3, <1>4, <2>1, InvFacts
  <1> HIDE DEF sk
  <1>6. LetGo(sk, entry)
    <2> SUFFICES ASSUME NEW m \in Node, NEW x \in Sockets, Lingers(sk, m, x)
                 PROVE  \/ Registers(entry, m, x) \/ sk[x].cut
                        \/ ~ IsOpen(sk, entry, Other(m), x)
      BY DEF LetGo
    <2>1. Lingers(sock, m, x)
      BY <1>3, <1>4 DEF Lingers
    <2>2. IsOpen(sk, entry, Other(m), x) => IsOpen(sock, entry, Other(m), x)
      BY <1>3, <1>4 DEF IsOpen
    <2>3. sk[x].cut = sock[x].cut
      BY <1>3, <1>4
    <2> QED BY <2>1, <2>2, <2>3, InvFacts DEF LetGo
  <1>7. sock' \in [Sockets -> End] /\ LetGo(sock', entry)
    BY <1>1, <1>5, <1>6, SettledFacts
  <1> QED BY <1>1, <1>7, InvFacts, InvHolds

(* An entry is let go of only when LetGo allows it.  The hard case is that  *)
(* nothing was heard: then the other machine does not answer on the socket, *)
(* and, holding no end that it has yet to add, lingers on it or has gone.   *)
LEMMA MarkDisconnectedInv ==
    ASSUME Inv, NEW n \in Node, MarkDisconnected(n)
    PROVE  Inv'
  <1> DEFINE en == [entry EXCEPT ![n].conn = FALSE]
             s == entry[n].sock
             o == Other(n)
  <1>1. /\ entry' = en /\ sock' = Settled(sock, en)
        /\ UNCHANGED <<up, dial, faults>> /\ Lost(n)
    BY DEF MarkDisconnected
  <1>2. entry[n] \in Entry /\ entry[n].conn /\ s \in Sockets
    BY <1>1, InvFacts DEF Lost, OverSocket
  <1>3. en[n] \in Entry /\ ~ en[n].conn
    BY <1>2, InvFacts DEF Entry
  <1>4. \A m \in Node : m # n => en[m] = entry[m]
    BY InvFacts
  <1>5. en \in [Node -> Entry]
    <2>1. en = [m \in Node |-> en[m]]
      BY InvFacts
    <2> HIDE DEF en
    <2> QED BY <1>3, <1>4, <2>1, InvFacts
  <1> HIDE DEF en
  <1>6. \A m \in Node : OverSocket(en[m])
    BY <1>3, <1>4, InvFacts DEF OverSocket
  <1>7. \A m \in Node, x \in Sockets : Registers(en, m, x) => Registers(entry, m, x)
    BY <1>3, <1>4 DEF Registers
  <1>8. Lingers(sock, n, s) => sock[s].cut \/ ~ IsOpen(sock, entry, o, s)
    <2> SUFFICES ASSUME Lingers(sock, n, s), ~ sock[s].cut, IsOpen(sock, entry, o, s)
                 PROVE  FALSE
      OBVIOUS
    <2>1. n \in sock[s].reader /\ n \notin sock[s].shut /\ o \in Node /\ Other(o) = n
      BY Others DEF Lingers
    <2>2. ~ Hears(n) /\ ~ Quick
      BY <1>1, <2>1 DEF Lost, IsOpen, Open, Registers, Registered
    <2>3. ~ Registers(entry, o, s)
      BY <2>1, <2>2 DEF Hears, Registers
    <2>4. o \notin sock[s].held
      BY <1>2, <2>1, <2>2 DEF Quick
    <2>5. Lingers(sock, o, s)
      BY <2>3, <2>4 DEF IsOpen, Lingers
    <2>6. ~ IsOpen(sock, entry, n, s)
      BY <1>2, <2>1, <2>3, <2>5, InvFacts DEF LetGo
    <2> QED BY <2>1, <2>6 DEF IsOpen
  <1>9. LetGo(sock, en)
    <2> SUFFICES ASSUME NEW m \in Node, NEW x \in Sockets, Lingers(sock, m, x)
                 PROVE  \/ Registers(en, m, x) \/ sock[x].cut
                        \/ ~ IsOpen(sock, en, Other(m), x)
      BY DEF LetGo
    <2>1. IsOpen(sock, en, Other(m), x) => IsOpen(sock, entry, Other(m), x)
      BY <1>7, Others DEF IsOpen
    <2>2. CASE Registers(entry, m, x)
      <3>1. CASE m # n
        BY <1>4, <2>2, <3>1 DEF Registers
      <3>2. CASE m = n
        <4>1. x = s
          BY <2>2, <3>2 DEF Registers
        <4> QED BY <1>8, <2>1, <3>2, <4>1
      <3> QED BY <3>1, <3>2
    <2>3. CASE ~ Registers(entry, m, x)
      BY <2>1, <2>3, InvFacts DEF LetGo
    <2> QED BY <2>2, <2>3
  <1>10. sock' \in [Sockets -> End] /\ LetGo(sock', entry')
    BY <1>1, <1>9, InvFacts, SettledFacts
  <1> QED BY <1>1, <1>5, <1>6, <1>10, InvFacts, InvHolds

LEMMA StopInv ==
    ASSUME Inv, NEW n \in Node, NEW silent \in BOOLEAN, Stop(n, silent)
    PROVE  Inv'
  <1> DEFINE en == [entry EXCEPT ![n] = NoEntry]
             sk == [s \in Sockets |->
                      [sock[s] EXCEPT !.held = @ \ {n}, !.reader = @ \ {n},
                                      !.cut = @ \/ (silent /\ n \in sock[s].reader)]]
  <1>1. /\ faults < MaxFaults /\ faults' = faults + 1
        /\ up' = [up EXCEPT ![n] = FALSE]
        /\ dial' = [dial EXCEPT ![n] = "off"]
        /\ entry' = en /\ sock' = Settled(sk, en)
    BY DEF Stop
  <1>2. ASSUME NEW s \in Sockets
        PROVE  /\ sk[s] \in End
               /\ sk[s].reader = sock[s].reader \ {n} /\ sk[s].held = sock[s].held \ {n}
               /\ sk[s].shut = sock[s].shut
               /\ sock[s].cut => sk[s].cut
    <2> DEFINE dead == sock[s].cut \/ (silent /\ n \in sock[s].reader)
    <2>1. sock[s] \in End
      BY InvFacts
    <2>2. dead \in BOOLEAN
      OBVIOUS
    <2>3. sk[s] = [sock[s] EXCEPT !.held = sock[s].held \ {n},
                                  !.reader = sock[s].reader \ {n}, !.cut = dead]
      BY <2>1 DEF End
    <2>4. sock[s].cut => dead
      OBVIOUS
    <2> HIDE DEF sk, dead
    <2>5. sk[s] = [opener |-> sock[s].opener, held |-> sock[s].held \ {n},
                   reader |-> sock[s].reader \ {n}, shut |-> sock[s].shut, cut |-> dead]
      BY <2>1, <2>3 DEF End
    <2> QED BY <2>1, <2>2, <2>4, <2>5 DEF End
  <1>3. sk = [s \in Sockets |-> sk[s]]
    OBVIOUS
  <1> HIDE DEF sk
  <1>4. sk \in [Sockets -> End]
    BY <1>2, <1>3
  <1>5. /\ en \in [Node -> Entry] /\ \A m \in Node : OverSocket(en[m])
        /\ \A m \in Node, x \in Sockets : m # n => Registers(en, m, x) = Registers(entry, m, x)
        /\ \A x \in Sockets : ~ Registers(en, n, x)
    BY InvFacts, EntryTypes DEF OverSocket, Registers, NoEntry
  <1> HIDE DEF en
  <1>6. LetGo(sk, en)
    <2> SUFFICES ASSUME NEW m \in Node, NEW x \in Sockets, Lingers(sk, m, x)
                 PROVE  \/ Registers(en, m, x) \/ sk[x].cut
                        \/ ~ IsOpen(sk, en, Other(m), x)
      BY DEF LetGo
    <2>1. m # n /\ Other(m) = n
      BY <1>2 DEF Lingers, Node, Other
    <2>2. ~ IsOpen(sk, en, n, x)
      BY <1>2, <1>5 DEF IsOpen
    <2> QED BY <2>1, <2>2
  <1>7. sock' \in [Sockets -> End] /\ LetGo(sock', entry')
    BY <1>1, <1>4, <1>6, SettledFacts
  <1>8. faults' \in 0 .. MaxFaults
    BY <1>1, InvFacts, MeshAssumption
  <1>9. up' \in [Node -> BOOLEAN]
    BY <1>1, InvFacts
  <1>10. dial' \in [Node -> {"off", "dialling", "adding", "failed", "done"}]
    BY <1>1, InvFacts
  <1> QED BY <1>1, <1>5, <1>7, <1>8, <1>9, <1>10, InvHolds

LEMMA CutInv == ASSUME Inv, NEW s \in Sockets, Cut(s) PROVE Inv'
  <1>1. sock' = [sock EXCEPT ![s].cut = TRUE]
    BY DEF Cut
  <1>2. sock[s] \in End
    BY InvFacts
  <1>3. /\ sock'[s] \in End /\ sock'[s].cut
        /\ \A x \in Sockets : x # s => sock'[x] = sock[x]
    BY <1>1, <1>2, InvFacts DEF End
  <1>4. sock' = [x \in Sockets |-> sock'[x]]
    BY <1>1, InvFacts
  <1>5. sock' \in [Sockets -> End]
    BY <1>3, <1>4, InvFacts
  <1>6. LetGo(sock', entry)
    BY <1>3, InvFacts DEF LetGo, Lingers, IsOpen
  <1>7. faults' \in 0 .. MaxFaults
    BY InvFacts, MeshAssumption DEF Cut
  <1> QED BY <1>5, <1>6, <1>7, InvFacts, InvHolds DEF Cut

LEMMA NextInv == Inv /\ [Next]_vars => Inv'
  <1> SUFFICES ASSUME Inv, [Next]_vars PROVE Inv'
    OBVIOUS
  <1>1. ASSUME NEW n \in Node,
               \/ Start(n) \/ Dial(n) \/ DialFails(n) \/ AddPlaceholder(n)
               \/ Reconnect(n) \/ MarkDisconnected(n)
        PROVE  Inv'
    BY <1>1, StartInv, DialInv, DialFailsInv, AddPlaceholderInv, ReconnectInv,
       MarkDisconnectedInv
  <1>2. ASSUME NEW n \in Node, Crash(n) \/ PowerLoss(n) PROVE Inv'
    BY <1>2, StopInv DEF Crash, PowerLoss
  <1>3. ASSUME NEW n \in Node, NEW s \in Sockets, AddHeld(n, s) \/ ReaderEnds(n, s)
        PROVE  Inv'
    BY <1>3, AddHeldInv, ReaderEndsInv
  <1>4. ASSUME NEW s \in Sockets, Cut(s) PROVE Inv'
    BY <1>4, CutInv
  <1>5. CASE UNCHANGED vars
    BY <1>5, InvFacts, InvHolds DEF vars
  <1> QED BY <1>1, <1>2, <1>3, <1>4, <1>5 DEF Next

LEMMA AlwaysInv == Spec => []Inv
  BY InitInv, NextInv, PTL DEF Spec

-----------------------------------------------------------------------------
(* The theorems.                                                           *)

(* Every entry, socket and thread is in a state the code has (mesh.rs,     *)
(* peer.rs).                                                               *)
THEOREM TypeCorrect == Spec => []TypeOK
  <1>1. Inv => TypeOK
    BY DEF Inv
  <1> QED BY <1>1, AlwaysInv, PTL

(* Whoever takes itself for connected, with nothing in flight, shares a    *)
(* working socket with the other end, for any number of sockets and faults *)
(* (mesh.rs: replaces, "both ends must agree on which survives").          *)
THEOREM BothEndsAgree == Spec => []EndsAgree
  <1>1. Inv => EndsAgree
    <2> SUFFICES ASSUME Inv, Quiet, NEW n \in Node, entry[n].conn PROVE Linked
      BY DEF EndsAgree
    <2> DEFINE o == Other(n)
               s == entry[n].sock
    <2>1. o \in Node /\ Other(o) = n /\ ~ Quick /\ ~ Lost(n) /\ ~ Lost(o) /\ s \in Sockets
      BY Others, InvFacts DEF Quiet, OverSocket
    <2>2. n \in sock[s].reader /\ ~ sock[s].cut /\ Open(s, o) /\ Hears(n)
      BY <2>1 DEF Lost
    <2>3. entry[o].conn
      BY <2>2 DEF Hears
    <2>4. Registers(entry, o, s)
      <3> SUFFICES ASSUME ~ Registers(entry, o, s) PROVE FALSE
        OBVIOUS
      <3>1. o \notin sock[s].held
        BY <2>1 DEF Quick
      <3>2. Lingers(sock, o, s)
        BY <2>2, <3>1 DEF Open, Registered, Registers, Lingers
      <3>3. ~ IsOpen(sock, entry, n, s)
        BY <2>1, <2>2, <3>2, InvFacts DEF LetGo
      <3>4. n \in sock[s].shut
        BY <2>2, <3>3 DEF IsOpen
      <3> QED BY <2>1, <2>2, <3>4 DEF Quiet, Ends
    <2>5. \A m \in Node : Registered(m, s)
      BY <2>4 DEF Registers, Registered, Node, Other
    <2> QED BY <2>1, <2>2, <2>5 DEF Linked
  <1> QED BY <1>1, AlwaysInv, PTL

(* With nothing in flight, a socket both ends hold open is in both         *)
(* registries: no reader is left on a link that nobody answers on          *)
(* (mesh.rs: add_peer).                                                    *)
THEOREM NothingLeaks == Spec => []NoLeak
  <1>1. Inv => NoLeak
    <2> SUFFICES ASSUME Inv, Quiet, NEW s \in Sockets,
                        \A n \in Node : Open(s, n),
                        NEW n \in Node, ~ Registered(n, s)
                 PROVE  FALSE
      BY DEF NoLeak
    <2>1. Other(n) \in Node /\ ~ Quick /\ ~ Ends(n, s)
      BY Others DEF Quiet
    <2>2. n \notin sock[s].held
      BY <2>1 DEF Quick
    <2>3. Lingers(sock, n, s)
      BY <2>2 DEF Open, Lingers
    <2>4. sock[s].cut \/ ~ IsOpen(sock, entry, Other(n), s)
      BY <2>3, InvFacts DEF LetGo, Registers, Registered
    <2>5. ~ sock[s].cut
      BY <2>1, <2>3 DEF Ends, Lingers
    <2> QED BY <2>1, <2>4, <2>5 DEF IsOpen, Open, Registers, Registered
  <1> QED BY <1>1, AlwaysInv, PTL
=============================================================================
