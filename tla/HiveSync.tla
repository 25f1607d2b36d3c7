------------------------------ MODULE HiveSync ------------------------------
(***************************************************************************)
(* The hive mind over a relay: a host with a named hive, the machines that  *)
(* joined it (or would like to), and the gossip of knowledge units between  *)
(* the host and each of them.  Every machine runs one relay process, which  *)
(* loads the knowledge file and its own membership once, keeps its copies   *)
(* and saves the knowledge whole after each merge; distillation, `hive      *)
(* join` and the owner's `hive requests` are other processes that touch the *)
(* same files.                                                              *)
(*                                                                          *)
(* A unit is what merging and gossip can tell apart: the machine that       *)
(* distilled it, its semantic key, an identity (the source and `no`) and a  *)
(* version.  Every unit is shareable, exposed and consented to, the hop cap *)
(* never bites (no code counts hops) and units do not age.  Clusters, which *)
(* no code outside tests creates, are left out.                             *)
(***************************************************************************)
EXTENDS Naturals, Sequences

CONSTANTS
    Host,             \* runs the named hive; joined to no other
    Joiners,          \* peers paired with the host, without a hive of theirs
    Grandfathered,    \* joiners paired before the host named its hive
    Askers,           \* joiners whose owner runs `hive join`
    Readers,          \* the joiners that hold a `hive.read` grant
    JoinPolicy,       \* "invite" or "ask", the host's
    Keys,             \* semantic keys
    Score,            \* confidence times evidence of what a machine distils
    NoUnit,           \* no unit for this key
    RestartAnywhere,  \* may a relay restart before it saw its own admission?
    MaxDistilled,     \* bound: distillations of one machine
    MaxFaults         \* bound: relay restarts and cut links together

Machines == {Host} \cup Joiners
(* Gossip runs along the host's link to each joiner, both ways.             *)
Links == ({Host} \X Joiners) \cup (Joiners \X {Host})
Standings == {"none", "pending", "contributor", "reader"}

Unit == [source : Machines, key : Keys, no : 1 .. MaxDistilled, version : 1 .. MaxDistilled]
Id(u) == [source |-> u.source, no |-> u.no]
Store == [Keys -> Unit \cup {NoUnit}]

ASSUME HiveAssumption ==
    /\ Host \notin Joiners
    /\ Askers \subseteq Joiners /\ Readers \subseteq Askers
    /\ Grandfathered \subseteq Joiners
    /\ JoinPolicy \in {"invite", "ask"}
    /\ Score \in [Machines -> Nat]
    /\ NoUnit \notin Unit \cup Keys
    /\ RestartAnywhere \in BOOLEAN
    /\ MaxDistilled \in Nat \ {0}
    /\ MaxFaults \in Nat

VARIABLES
    file,        \* knowledge.jsonl of each machine
    memory,      \* what its relay process holds
    sent,        \* sync_state.json: the identities offered along each link
    wire,        \* messages under way along each link, in order
    roster,      \* the host's members and their roles
    asked,       \* joiners with a request on file
    denied,      \* joiners the owner denied
    answers,     \* join results on their way to each joiner
    membership,  \* membership.json of each machine
    standing,    \* the relay's copy of it
    distilled,   \* how often each machine distilled
    faults,      \* restarts and cuts so far
    lost         \* links that lost a batch (history)

join == <<roster, asked, denied, answers, membership>>
vars == <<file, memory, sent, wire, roster, asked, denied, answers,
          membership, standing, distilled, faults, lost>>

TypeOK ==
    /\ file \in [Machines -> Store]
    /\ memory \in [Machines -> Store]
    /\ sent \in [Links -> SUBSET [source : Machines, no : 1 .. MaxDistilled]]
    /\ \A l \in Links : \A i \in DOMAIN wire[l] :
          wire[l][i] \in [type : {"sync", "rejected"}, units : SUBSET Unit]
    /\ roster \in [Joiners -> Standings \ {"pending"}]
    /\ asked \subseteq Joiners /\ denied \subseteq asked
    /\ answers \in [Joiners -> SUBSET (Standings \ {"none"})]
    /\ membership \in [Machines -> Standings]
    /\ standing \in [Machines -> Standings]
    /\ distilled \in [Machines -> 0 .. MaxDistilled]
    /\ faults \in 0 .. MaxFaults
    /\ lost \subseteq Links

First(m, k) == [source |-> m, key |-> k, no |-> 1, version |-> 1]

(* Each relay starts with what its machine distilled by then, if anything. *)
Init ==
    /\ \E start \in [Machines -> Keys \cup {NoUnit}] :
        /\ file = [m \in Machines |-> [k \in Keys |->
                      IF start[m] = k THEN First(m, k) ELSE NoUnit]]
        /\ distilled = [m \in Machines |-> IF start[m] = NoUnit THEN 0 ELSE 1]
    /\ memory = file
    /\ sent = [l \in Links |-> {}]
    /\ wire = [l \in Links |-> <<>>]
    /\ roster = [j \in Joiners |-> IF j \in Grandfathered THEN "contributor" ELSE "none"]
    /\ asked = {} /\ denied = {}
    /\ answers = [j \in Joiners |-> {}]
    /\ membership = [m \in Machines |-> "none"]
    /\ standing = membership
    /\ faults = 0
    /\ lost = {}

-----------------------------------------------------------------------------
(* Merging.                                                                 *)

(* A peer's unit beats another peer's by its score, then by its version.   *)
Outranks(new, old) ==
    \/ Score[new.source] > Score[old.source]
    \/ Score[new.source] = Score[old.source] /\ new.version > old.version

(* merge_unit takes `new` into m's store: nothing is known of its key, or  *)
(* it beats what another machine said of it.                               *)
Takes(store, new, m) ==
    LET old == store[new.key] IN
    \/ old = NoUnit
    \/ /\ ~(Id(old) = Id(new) /\ old.version >= new.version)
       /\ old.source # m
       /\ Outranks(new, old)

(* merge_batch; a batch holds at most one unit of a key, as stores do.     *)
MergeBatch(store, batch, m) ==
    [k \in Keys |->
        IF \E u \in batch : u.key = k /\ Takes(store, u, m)
        THEN CHOOSE u \in batch : u.key = k
        ELSE store[k]]

(* handle_sync: the units of the batch the store now holds by identity.    *)
Kept(store, batch) ==
    {u \in batch : store[u.key] # NoUnit /\ Id(store[u.key]) = Id(u)}

-----------------------------------------------------------------------------
(* The gates and the offers.                                                *)

(* may_contribute, asked of the sender at the receiver: the host goes by   *)
(* its roster; a joiner has none, and the host is exempt from it.          *)
MayContribute(l) == l[2] = Host => roster[l[1]] = "contributor"

(* may_send_to: the host to any member; a joiner unless it is a reader or  *)
(* waits for the owner -- not having asked at all stops nothing here.      *)
MaySendTo(l, standings) ==
    IF l[1] = Host THEN roster[l[2]] # "none"
    ELSE standings[l[1]] \notin {"pending", "reader"}

(* What generate_sync_messages puts in the batch for a link.               *)
Unsent(l, known) ==
    {u \in {memory[l[1]][k] : k \in Keys} \ {NoUnit} :
        u.source # l[2] /\ Id(u) \notin known[l]}

(* Each link's offer on the wire, none where there is nothing to offer.    *)
Send(wires, offer) ==
    [l \in Links |-> IF offer[l] = {} THEN wires[l]
                      ELSE Append(wires[l], [type |-> "sync", units |-> offer[l]])]
Recorded(known, offer) ==
    [l \in Links |-> known[l] \cup {Id(u) : u \in offer[l]}]

(* Mutant: what was offered before the admission stays offered.            *)
NothingForgotten(m) == sent

(* refresh_membership: a changed standing forgets what the host was sent.  *)
Forgotten(m) ==
    [l \in Links |->
        IF l[1] = m /\ l[2] = Host /\ membership[m] # standing[m] THEN {} ELSE sent[l]]

(* One pass of the timer, or of the distillation signal: look at the       *)
(* membership again, then offer each peer that may have it what it was not *)
(* sent.  What is offered counts as sent from here on.                     *)
Tick(m) ==
    LET standings == [standing EXCEPT ![m] = membership[m]]
        known == Forgotten(m)
        offer == [l \in Links |->
                    IF l[1] = m /\ MaySendTo(l, standings) THEN Unsent(l, known) ELSE {}]
    IN  /\ standing' = standings
        /\ sent' = Recorded(known, offer)
        /\ wire' = Send(wire, offer)
        /\ UNCHANGED <<file, memory, join, distilled, faults, lost>>

(* Mutant: passed on to every connected peer, whoever it is.               *)
OnwardToAll(from, m, kept) ==
    [l \in Links |->
        IF l[1] = m /\ l[2] # from THEN {u \in kept : Id(u) \notin sent[l]} ELSE {}]

(* propagate: on to the peers that may have it, but for the one it came    *)
(* from and those already sent it -- its own source may be among them.     *)
Onward(from, m, kept) ==
    [l \in Links |->
        IF l[1] = m /\ l[2] # from /\ MaySendTo(l, standing)
        THEN {u \in kept : Id(u) \notin sent[l]}
        ELSE {}]

Arrives(l, type) == wire[l] # <<>> /\ Head(wire[l]).type = type
Back(l) == <<l[2], l[1]>>
Arriving(l) == [wire EXCEPT ![l] = Tail(@)]

(* on_sync for a contributor's batch: merge, save the whole store over the *)
(* file, pass on what was kept.                                            *)
AcceptSync(l) ==
    /\ Arrives(l, "sync")
    /\ MayContribute(l)
    /\ LET m == l[2]
           batch == Head(wire[l]).units
           store == MergeBatch(memory[m], batch, m)
           offer == Onward(l[1], m, Kept(store, batch))
       IN  /\ memory' = [memory EXCEPT ![m] = store]
           /\ file' = [file EXCEPT ![m] = store]
           /\ sent' = Recorded(sent, offer)
           /\ wire' = Send(Arriving(l), offer)
    /\ UNCHANGED <<join, standing, distilled, faults, lost>>

(* on_sync for anyone else's: the refusal goes back on the wire.           *)
RefuseSync(l) ==
    /\ Arrives(l, "sync")
    /\ ~MayContribute(l)
    /\ wire' = [Arriving(l) EXCEPT ![Back(l)] = Append(@, [type |-> "rejected", units |-> {}])]
    /\ UNCHANGED <<file, memory, sent, join, standing, distilled, faults, lost>>

(* Mutant: a refused offer is forgotten at once, as forget_peer's own      *)
(* comment proposes.                                                        *)
ForgetOnRejection(l) == [sent EXCEPT ![Back(l)] = {}]

(* A refusal is reported and nothing more: what was offered stays offered. *)
AfterRejection(l) == sent
HearRejected(l) ==
    /\ Arrives(l, "rejected")
    /\ wire' = Arriving(l)
    /\ sent' = AfterRejection(l)
    /\ UNCHANGED <<file, memory, join, standing, distilled, faults, lost>>

-----------------------------------------------------------------------------
(* Joining.                                                                 *)

(* decide_join and its answer: a member is told its role, a grant admits a *)
(* reader whatever the policy, `invite` admits, `ask` queues -- a denied   *)
(* peer too, which is answered "pending" and never listed again.           *)
DecideJoin(j, grant) ==
    LET admits == IF grant THEN "reader" ELSE "contributor"
        queues == roster[j] = "none" /\ ~grant /\ JoinPolicy = "ask"
    IN  /\ grant => j \in Readers
        /\ roster' = IF queues \/ roster[j] # "none" THEN roster
                     ELSE [roster EXCEPT ![j] = admits]
        /\ asked' = IF queues THEN asked \cup {j} ELSE asked
        /\ answers' = [answers EXCEPT ![j] = @ \cup {IF queues THEN "pending" ELSE roster'[j]}]
        /\ UNCHANGED <<file, memory, sent, wire, denied, membership, standing,
                       distilled, faults, lost>>

Pending(j) == j \in asked \ denied /\ roster[j] = "none"

(* Mutant: the joiner's own word for where it stands goes on the roster.    *)
ApproveAsAsked(j) ==
    /\ Pending(j)
    /\ roster' = [roster EXCEPT ![j] = "pending"]
    /\ UNCHANGED <<file, memory, sent, wire, asked, denied, answers, membership, standing,
                   distilled, faults, lost>>

(* `hive requests approve`: admit, then tell the joiner if it can be       *)
(* reached.                                                                *)
Approve(j) ==
    /\ Pending(j)
    /\ roster' = [roster EXCEPT ![j] = "contributor"]
    /\ \E told \in {{}, {"contributor"}} : answers' = [answers EXCEPT ![j] = @ \cup told]
    /\ UNCHANGED <<file, memory, sent, wire, asked, denied, membership, standing,
                   distilled, faults, lost>>

(* `hive requests deny` tells nobody.                                      *)
Deny(j) ==
    /\ Pending(j)
    /\ denied' = denied \cup {j}
    /\ UNCHANGED <<file, memory, sent, wire, roster, asked, answers, membership,
                   standing, distilled, faults, lost>>

(* apply_join_result, in `hive join` or in the relay: whichever answer     *)
(* comes last is what the joiner believes.                                 *)
ApplyJoinResult(j) ==
    \E a \in answers[j] :
        /\ membership' = [membership EXCEPT ![j] = a]
        /\ answers' = [answers EXCEPT ![j] = @ \ {a}]
        /\ UNCHANGED <<file, memory, sent, wire, roster, asked, denied, standing,
                       distilled, faults, lost>>

-----------------------------------------------------------------------------
(* The rest of the machine.                                                 *)

(* Distillation, in the brain's own process: load the file, keep the       *)
(* identity of an own unit and raise its version or start a new one, save. *)
Distill(m, k) ==
    LET old == file[m][k]
        unit == IF old # NoUnit /\ old.source = m
                THEN [old EXCEPT !.version = @ + 1]
                ELSE [source |-> m, key |-> k, no |-> distilled[m] + 1, version |-> 1]
    IN  /\ distilled[m] < MaxDistilled
        /\ file' = [file EXCEPT ![m][k] = unit]
        /\ distilled' = [distilled EXCEPT ![m] = @ + 1]
        /\ UNCHANGED <<memory, sent, wire, join, standing, faults, lost>>

(* The messages under way along these links are gone.                      *)
Drop(links) ==
    /\ faults < MaxFaults
    /\ faults' = faults + 1
    /\ wire' = [l \in Links |-> IF l \in links THEN <<>> ELSE wire[l]]
    /\ lost' = lost \cup {l \in links : \E i \in DOMAIN wire[l] : wire[l][i].type = "sync"}

(* A link breaks and is dialled again.                                     *)
Cut(j) ==
    /\ Drop({<<Host, j>>, <<j, Host>>})
    /\ UNCHANGED <<file, memory, sent, join, standing, distilled>>

(* A relay stops, or is stopped, and is started again: it reads the files. *)
Restart(m) ==
    /\ RestartAnywhere \/ membership[m] = standing[m]
    /\ Drop({l \in Links : m \in {l[1], l[2]}})
    /\ memory' = [memory EXCEPT ![m] = file[m]]
    /\ standing' = [standing EXCEPT ![m] = membership[m]]
    /\ UNCHANGED <<file, sent, join, distilled>>

Next ==
    \/ \E m \in Machines : Tick(m) \/ Restart(m) \/ \E k \in Keys : Distill(m, k)
    \/ \E l \in Links : AcceptSync(l) \/ RefuseSync(l) \/ HearRejected(l)
    \/ \E j \in Askers, grant \in BOOLEAN : DecideJoin(j, grant)
    \/ \E j \in Joiners : Approve(j) \/ Deny(j) \/ ApplyJoinResult(j) \/ Cut(j)

Spec == Init /\ [][Next]_vars

(* The relay loops run: the timer fires and what arrives is handled.  No   *)
(* owner need decide, no joiner ask, no answer land.                       *)
FairSpec ==
    /\ Spec
    /\ \A m \in Machines : WF_vars(Tick(m))
    /\ \A l \in Links : WF_vars(AcceptSync(l) \/ RefuseSync(l) \/ HearRejected(l))

-----------------------------------------------------------------------------
(* Properties.                                                              *)

(* The hive is closed at both ends, over any number of hops: knowledge of  *)
(* others reaches only members, and nothing a reader or an outsider        *)
(* distils reaches anybody, in memory or on disk (hivesync.rs: the gates).  *)
MembersOnly ==
    \A j \in Joiners, k \in Keys :
        \A store \in {memory, file} :
            /\ roster[j] = "none" => store[j][k] = NoUnit \/ store[j][k].source = j
            /\ roster[j] # "contributor" =>
                 \A m \in Machines \ {j} : store[m][k] # NoUnit => store[m][k].source # j

(* b knows of each key something at least as good as what a holds of it,   *)
(* or trusts its own; what b itself said does not come back to it.         *)
AsGood(a, b) ==
    \A k \in Keys :
        memory[a][k] # NoUnit /\ memory[a][k].source # b =>
            /\ memory[b][k] # NoUnit
            /\ \/ memory[b][k].source = b
               \/ Score[memory[b][k].source] >= Score[memory[a][k].source]

(* Both ends know that the joiner contributes, or one of old never asked.   *)
Contributes(j) ==
    /\ roster[j] = "contributor"
    /\ standing[j] = membership[j]
    /\ membership[j] = "none" => j \in Grandfathered
    /\ membership[j] \in {"none", "contributor"}

(* A contributor's knowledge ends up with the host, units refused before   *)
(* its admission included, and the host's with every member, as long as no *)
(* batch is lost on the way (hivesync.rs: one timer covers every case).     *)
Spreads ==
    \A j \in Joiners :
        /\ <>[](Contributes(j) /\ <<j, Host>> \notin lost) => <>[]AsGood(j, Host)
        /\ <>[](roster[j] # "none" /\ <<Host, j>> \notin lost) => <>[]AsGood(Host, j)

(* The gossip comes to rest: nobody offers a peer the same thing for ever, *)
(* a peer that will never be admitted least of all (hivesync.rs:141).       *)
ComesToRest == <>[](\A l \in Links : wire[l] = <<>>)

(* A machine's own unit is never displaced from its knowledge file.         *)
OwnUnitKept ==
    [][\A m \in Machines, k \in Keys :
        file[m][k] # NoUnit /\ file[m][k].source = m =>
            file'[m][k] # NoUnit /\ file'[m][k].source = m]_vars

(* Spreads, restarts included: what was refused is offered again once the   *)
(* gate opens.                                                              *)
RefusedIsReoffered ==
    \A j \in Joiners :
        <>[](Contributes(j) /\ <<j, Host>> \notin lost) => <>[]AsGood(j, Host)
=============================================================================
