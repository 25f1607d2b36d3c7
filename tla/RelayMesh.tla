------------------------------ MODULE RelayMesh ------------------------------
(***************************************************************************)
(* The link between two paired relays that each dial the other: the        *)
(* registry of peers (relay/mesh.rs), one connection (relay/peer.rs), the  *)
(* thread that dials at start-up and the redial of the serve loop          *)
(* (relay/cli.rs) and the acceptor (relay/listener.rs).                    *)
(*                                                                         *)
(* A socket has an end at each machine. An end has a reader thread and a   *)
(* handle: the connection of the registry, or of a thread that has not     *)
(* added it yet. A machine answers on its registry's entry alone, so a     *)
(* socket that only one machine registered carries one direction.          *)
(***************************************************************************)
EXTENDS Integers, FiniteSets

CONSTANTS
    Low, High,      \* the two peer ids, in their order
    Sockets,        \* how many sockets can exist at once
    Faults,         \* what may go wrong: "crash", "power", "cut"
    MaxFaults       \* how often, in all

ASSUME MeshAssumption ==
    /\ Low # High
    /\ Sockets # {} /\ Sockets \subseteq Nat \ {0}
    /\ MaxFaults \in Nat

Node == {Low, High}
Other(n) == IF n = Low THEN High ELSE Low

VARIABLES
    up,         \* is the relay process running
    dial,       \* its start-up thread: "off", "dialling", "adding", "failed", "done"
    entry,      \* the registry's entry for the other machine
    sock,       \* the sockets and their ends
    faults      \* how many faults have struck

vars == <<up, dial, entry, sock, faults>>

-----------------------------------------------------------------------------
(* Entries and sockets.                                                    *)

NoSocket == 0
NoEntry == [sock |-> NoSocket, init |-> FALSE, conn |-> FALSE]

\* An entry that is there to be dialled and has never held a socket.
Placeholder == [sock |-> NoSocket, init |-> TRUE, conn |-> FALSE]

\* A connection over s, seen by the machine that opened it or the one that accepted.
Connection(s, opened) == [sock |-> s, init |-> opened, conn |-> TRUE]

Blank == [opener |-> Low, held |-> {}, reader |-> {}, shut |-> {}, cut |-> FALSE]

TypeOK ==
    /\ up \in [Node -> BOOLEAN]
    /\ dial \in [Node -> {"off", "dialling", "adding", "failed", "done"}]
    /\ entry \in [Node -> [sock : Sockets \cup {NoSocket}, init : BOOLEAN, conn : BOOLEAN]]
    /\ sock \in [Sockets -> [opener : Node, held : SUBSET Node, reader : SUBSET Node,
                             shut : SUBSET Node, cut : BOOLEAN]]
    /\ faults \in 0 .. MaxFaults

Registered(n, s) == entry[n].conn /\ entry[n].sock = s

ReaderAlive(n, e) == e.sock # NoSocket /\ n \in sock[e.sock].reader

\* Nobody has shut the end down, and a thread or the registry still holds it.
Open(s, n) ==
    /\ n \notin sock[s].shut
    /\ n \in sock[s].reader \cup sock[s].held \/ Registered(n, s)

\* A socket that no thread and no entry refers to is gone.
InUse(sk, en, s) ==
    sk[s].reader # {} \/ sk[s].held # {} \/ \E n \in Node : en[n].sock = s
Settled(sk, en) == [s \in Sockets |-> IF InUse(sk, en, s) THEN sk[s] ELSE Blank]

Unused == {s \in Sockets : ~ InUse(sock, entry, s)}

\* What n hears from the other machine: whatever that one sends on the socket
\* it registered, if a reader of n is there. The heartbeat counts for n's
\* entry, whichever socket that is.
Hears(n) ==
    LET e == entry[Other(n)]
    IN  e.conn /\ n \in sock[e.sock].reader /\ ~ sock[e.sock].cut

-----------------------------------------------------------------------------
(* The collision rule.                                                     *)

\* Mutant of Replaces: each end prefers the socket it opened.
PrefersMine(n, old, new) == old.init = new.init \/ new.init

\* Same direction: the newer one. Otherwise the one the lower id opened.
Replaces(n, old, new) ==
    \/ old.init = new.init
    \/ n = Low /\ new.init
    \/ n = High /\ ~ new.init

Keeps(n, new) == ReaderAlive(n, entry[n]) /\ ~ Replaces(n, entry[n], new)

\* Mutant of Loser: the displaced connection is only forgotten.
OnlyForgets(n, new) == IF Keeps(n, new) THEN {new.sock} \cap Sockets ELSE {}

\* The sockets n shuts when it adds new: the one that lost. An entry that was
\* marked disconnected has let go of its socket and can shut nothing.
Loser(n, new) ==
    CASE Keeps(n, new)                   -> {new.sock} \cap Sockets
      [] ~ Keeps(n, new) /\ entry[n].conn -> {entry[n].sock}
      [] OTHER                           -> {}

\* add_peer at n, on the sockets sk as the caller leaves them.
AddPeer(n, new, sk) ==
    LET en == IF Keeps(n, new) THEN entry ELSE [entry EXCEPT ![n] = new]
    IN  /\ entry' = en
        /\ sock' = Settled([s \in Sockets |->
                      IF s \in Loser(n, new) THEN [sk[s] EXCEPT !.shut = @ \cup {n}]
                                             ELSE sk[s]], en)

\* A socket n opened: authenticated at both ends, with both readers running.
Opened(n, holders) ==
    [opener |-> n, held |-> holders, reader |-> Node, shut |-> {}, cut |-> FALSE]

-----------------------------------------------------------------------------
Init ==
    /\ up = [n \in Node |-> FALSE]
    /\ dial = [n \in Node |-> "off"]
    /\ entry = [n \in Node |-> NoEntry]
    /\ sock = [s \in Sockets |-> Blank]
    /\ faults = 0

\* The relay starts, and its thread dials the peer it has on record.
Start(n) ==
    /\ ~ up[n]
    /\ up' = [up EXCEPT ![n] = TRUE]
    /\ dial' = [dial EXCEPT ![n] = "dialling"]
    /\ UNCHANGED <<entry, sock, faults>>

\* The start-up thread gets through, with the registry unlocked.
Dial(n) ==
    /\ dial[n] = "dialling" /\ up[Other(n)] /\ Unused # {}
    /\ dial' = [dial EXCEPT ![n] = "adding"]
    /\ sock' = [sock EXCEPT ![CHOOSE s \in Unused : TRUE] = Opened(n, Node)]
    /\ UNCHANGED <<up, entry, faults>>

\* No address answers: the other relay is not running.
DialFails(n) ==
    /\ dial[n] = "dialling" /\ ~ up[Other(n)]
    /\ dial' = [dial EXCEPT ![n] = "failed"]
    /\ UNCHANGED <<up, entry, sock, faults>>

\* The thread that failed leaves a placeholder for the redial.
AddPlaceholder(n) ==
    /\ dial[n] = "failed"
    /\ dial' = [dial EXCEPT ![n] = "done"]
    /\ AddPeer(n, Placeholder, sock)
    /\ UNCHANGED <<up, faults>>

\* The start-up thread or the acceptor adds the connection it holds.
AddHeld(n, s) ==
    /\ n \in sock[s].held
    /\ LET opened == sock[s].opener = n
       IN  /\ dial' = [dial EXCEPT ![n] = IF opened THEN "done" ELSE @]
           /\ AddPeer(n, Connection(s, opened), [sock EXCEPT ![s].held = @ \ {n}])
    /\ UNCHANGED <<up, faults>>

\* The serve loop redials a peer it lost and had opened the link to, with the
\* registry locked from the dial to the add. A dial that fails changes nothing.
Reconnect(n) ==
    /\ up[n] /\ ~ entry[n].conn /\ entry[n].init
    /\ up[Other(n)] /\ Unused # {}
    /\ LET s == CHOOSE x \in Unused : TRUE
       IN  AddPeer(n, Connection(s, TRUE), [sock EXCEPT ![s] = Opened(n, {Other(n)})])
    /\ UNCHANGED <<up, dial, faults>>

\* A reader thread ends: its end was shut, the other end is closed and the FIN
\* arrives, or the kernel gives up on a socket whose path is cut.
Ends(n, s) ==
    /\ n \in sock[s].reader
    /\ n \in sock[s].shut \/ sock[s].cut \/ ~ Open(s, Other(n))

ReaderEnds(n, s) ==
    /\ Ends(n, s)
    /\ sock' = Settled([sock EXCEPT ![s].reader = @ \ {n}], entry)
    /\ UNCHANGED <<up, dial, entry, faults>>

\* Every step that takes less than a heartbeat interval has been taken.
Quick ==
    \/ \E n \in Node : dial[n] \in {"dialling", "adding", "failed"}
    \/ \E n \in Node, s \in Sockets :
          n \in sock[s].held \/ (Ends(n, s) /\ ~ sock[s].cut)

\* tick: the reader is gone, a heartbeat cannot be sent, or none has been heard
\* for three intervals. The entry lets go of its socket and shuts nothing.
Lost(n) ==
    LET s == entry[n].sock
    IN  /\ entry[n].conn
        /\ \/ n \notin sock[s].reader
           \/ sock[s].cut
           \/ ~ Open(s, Other(n))
           \/ ~ Hears(n) /\ ~ Quick

MarkDisconnected(n) ==
    /\ Lost(n)
    /\ LET en == [entry EXCEPT ![n].conn = FALSE]
       IN  entry' = en /\ sock' = Settled(sock, en)
    /\ UNCHANGED <<up, dial, faults>>

\* The process is gone, and every end it had. After a power cut the other
\* machine is not told.
Stop(n, silent) ==
    /\ up[n] /\ faults < MaxFaults
    /\ faults' = faults + 1
    /\ up' = [up EXCEPT ![n] = FALSE]
    /\ dial' = [dial EXCEPT ![n] = "off"]
    /\ LET en == [entry EXCEPT ![n] = NoEntry]
       IN  /\ entry' = en
           /\ sock' = Settled([s \in Sockets |->
                [sock[s] EXCEPT !.held = @ \ {n}, !.reader = @ \ {n},
                                !.cut = @ \/ (silent /\ n \in sock[s].reader)]], en)

Crash(n) == "crash" \in Faults /\ Stop(n, FALSE)
PowerLoss(n) == "power" \in Faults /\ Stop(n, TRUE)

\* The path of a socket goes: a network change, a forgotten NAT mapping.
Cut(s) ==
    /\ "cut" \in Faults /\ faults < MaxFaults
    /\ sock[s].reader # {} /\ ~ sock[s].cut
    /\ faults' = faults + 1
    /\ sock' = [sock EXCEPT ![s].cut = TRUE]
    /\ UNCHANGED <<up, dial, entry>>

Next ==
    \/ \E n \in Node : \/ Start(n) \/ Dial(n) \/ DialFails(n) \/ AddPlaceholder(n)
                       \/ Reconnect(n) \/ MarkDisconnected(n)
                       \/ Crash(n) \/ PowerLoss(n)
    \/ \E n \in Node, s \in Sockets : AddHeld(n, s) \/ ReaderEnds(n, s)
    \/ \E s \in Sockets : Cut(s)

Spec == Init /\ [][Next]_vars

FairSpec ==
    /\ Spec
    /\ \A n \in Node :
          /\ WF_vars(Start(n)) /\ WF_vars(Dial(n) \/ DialFails(n)) /\ WF_vars(AddPlaceholder(n))
          /\ WF_vars(Reconnect(n)) /\ WF_vars(MarkDisconnected(n))
          /\ \A s \in Sockets : WF_vars(AddHeld(n, s)) /\ WF_vars(ReaderEnds(n, s))

-----------------------------------------------------------------------------
Linked == \E s \in Sockets : ~ sock[s].cut /\ \A n \in Node : Registered(n, s)

\* Nothing is in flight: no quick step, and no reader or tick has something to notice.
Quiet ==
    /\ ~ Quick
    /\ \A n \in Node : up[n] /\ ~ Lost(n)
    /\ \A n \in Node, s \in Sockets : ~ Ends(n, s)

\* Neither end is left to redial.
Stranded == Quiet /\ ~ Linked /\ \A n \in Node : entry[n].conn \/ ~ entry[n].init

\* Once nothing is in flight, an end that takes itself for connected shares a
\* working socket with the other end: the collision rule never leaves each end
\* with a socket of its own (replaces, "both ends must agree on which survives").
EndsAgree == Quiet => \A n \in Node : entry[n].conn => Linked

\* Once nothing is in flight, a socket that both ends hold open is in both
\* registries: no reader is left on a link that cannot be answered (add_peer, #459).
NoLeak ==
    Quiet => \A s \in Sockets :
                (\A n \in Node : Open(s, n)) => \A n \in Node : Registered(n, s)

\* However dials, adds and closes interleave, the machines end up on one working
\* socket; only after a fault may they end up with nobody left to redial.
Relinks == <>[](Linked \/ (Stranded /\ faults > 0))

\* A pair that lost its link has an end that redials it.
NoStrandedPair == ~ Stranded

\* A placeholder never displaces a connection that both ends hold open
\* (is_placeholder: "a placeholder must never win add_peer's collision rule").
PlaceholderNeverWins ==
    [][\A n \in Node :
         entry[n].conn /\ Open(entry[n].sock, Other(n)) => entry'[n] # Placeholder]_vars
=============================================================================
