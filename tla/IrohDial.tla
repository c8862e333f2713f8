------------------------------ MODULE IrohDial ------------------------------
(***************************************************************************)
(* Dialling a node by its id (crates/transport-iroh/src/endpoint.rs, dial, *)
(* connect_phase, discover_dial) and finding it on the local network       *)
(* (mdns.rs): a phase over its direct addresses, one over relays and       *)
(* direct addresses, then whatever the first discovery service answers.    *)
(*                                                                         *)
(* One node is dialled again and again, and moves.  Iroh's own connect is  *)
(* external: it succeeds only where the node is, and fails when it is not  *)
(* there, when the endpoint is closed or the context over, or when it is   *)
(* slower than the time a phase has.                                       *)
(***************************************************************************)
EXTENDS Naturals, FiniteSets

CONSTANTS
    Direct,     \* direct addresses
    Relay,      \* the address at a relay
    MaxMoves,   \* bound: moves of the node
    MaxLate     \* bound: old announcements that arrive late

Addresses == Direct \cup {Relay}
Loops == {"v4", "v6"}
NotHeard == {}      \* an announcement has an address

VARIABLES
    relaysEnabled, discover,    \* the configuration
    live, been, moves, late,    \* where the node is, has been; its old packets
    loops, tx, cache,           \* MdnsResolver: read loops, sockets, announcements
    shut,                       \* the endpoint: "no", "closing" or "yes"
    phase, given, ctxOver, found, lookups,
    moved, slow, hinted         \* history, of this dial

nodeVars == <<live, been, moves, late>>
mdnsVars == <<loops, tx, cache>>
dialVars == <<phase, given, ctxOver, found, lookups, moved, slow, hinted>>
dialling == <<relaysEnabled, discover, nodeVars, mdnsVars, shut, dialVars>>

Usable(addrs) == IF relaysEnabled THEN addrs ELSE addrs \ {Relay}

\* Where the node can be: at a direct address, at its relay, at both, or down.
Places == {{}} \cup {{d} : d \in Direct} \cup {{d, Relay} : d \in Direct} \cup {{Relay}}

\* bind_iroh; the mDNS listener may fail on IPv6, or altogether.
Bind ==
    /\ relaysEnabled \in BOOLEAN /\ discover \in BOOLEAN
    /\ loops \in {Loops, {"v4"}, {}} /\ (~discover => loops = {})
    /\ tx = IF loops = {} THEN "stopped" ELSE "listening"
    /\ cache = NotHeard /\ shut = "no"

Init ==
    /\ Bind
    /\ live \in Places /\ been = {live} /\ moves = 0 /\ late = 0
    /\ phase = "idle" /\ given = {} /\ ctxOver = FALSE /\ found = {} /\ lookups = {}
    /\ moved = FALSE /\ slow = FALSE /\ hinted = FALSE

-----------------------------------------------------------------------------
(***************************************************************************)
(* The network and the resolver's read loops.                              *)
(***************************************************************************)
Move ==
    /\ moves < MaxMoves
    /\ live' \in Places \ {live}
    /\ been' = been \cup {live'} /\ moves' = moves + 1
    /\ moved' = (phase # "idle")
    /\ UNCHANGED <<relaysEnabled, discover, late, mdnsVars, shut, phase, given, ctxOver, found,
                   lookups, slow, hinted>>

\* parse_announcement refuses one without a direct address.
Announceable(addrs) == addrs \cap Direct # {}

\* handle_packet: what is heard last replaces what was heard before, and need
\* not be the last thing sent.
Hear(addrs) ==
    /\ loops # {} /\ Announceable(addrs)
    /\ cache' = addrs
    /\ IF addrs = live THEN late' = late ELSE late < MaxLate /\ late' = late + 1
    /\ UNCHANGED <<relaysEnabled, discover, live, been, moves, loops, tx, shut, dialVars>>

\* Shared::stop
Stop == loops' = {} /\ tx' = "stopped"

\* A read of read_loop fails: without IPv4 the listener stops.
ReadFails(f) ==
    /\ f \in loops /\ shut = "no"
    /\ IF f = "v4" THEN Stop ELSE loops' = loops \ {f} /\ tx' = tx
    /\ UNCHANGED <<relaysEnabled, discover, nodeVars, cache, shut, dialVars>>

\* close_bounded: discovery first, then the endpoint.
CloseDiscovery ==
    /\ shut = "no"
    /\ Stop /\ shut' = "closing"
    /\ UNCHANGED <<relaysEnabled, discover, nodeVars, cache, dialVars>>

CloseEndpoint ==
    /\ shut = "closing"
    /\ shut' = "yes"
    /\ UNCHANGED <<relaysEnabled, discover, nodeVars, mdnsVars, dialVars>>

-----------------------------------------------------------------------------
(***************************************************************************)
(* dial                                                                    *)
(***************************************************************************)
Begin(addrs) ==
    /\ phase \in {"idle", "failed"}
    /\ given' = addrs
    /\ phase' = IF addrs \cap Direct # {} THEN "direct" ELSE IF Relay \in addrs THEN "all" ELSE "discover"
    /\ ctxOver' = FALSE /\ found' = {} /\ lookups' = {}
    /\ moved' = FALSE /\ slow' = FALSE /\ hinted' = FALSE
    /\ UNCHANGED <<relaysEnabled, discover, nodeVars, mdnsVars, shut>>

CtxEnds ==
    /\ phase \notin {"idle", "failed"} /\ ~ctxOver
    /\ ctxOver' = TRUE
    /\ UNCHANGED <<relaysEnabled, discover, nodeVars, mdnsVars, shut, phase, given, found, lookups,
                   moved, slow, hinted>>

\* Mutant: the second phase has only the relays.
TargetsRelaysOnly ==
    Usable(CASE phase = "direct" -> given \cap Direct
             [] phase = "all" -> given \cap {Relay}
             [] OTHER -> found)

\* The addresses of the connect under way; a relay is none without relays.
Targets ==
    Usable(CASE phase = "direct" -> given \cap Direct
             [] phase = "all" -> given
             [] OTHER -> found)

Connecting == phase \in {"direct", "all", "found"}

Connected ==
    /\ Connecting /\ shut # "yes" /\ ~ctxOver
    /\ Targets \cap live # {}
    /\ phase' = "idle" /\ given' = {} /\ found' = {}
    /\ moved' = FALSE /\ slow' = FALSE /\ hinted' = FALSE
    /\ UNCHANGED <<relaysEnabled, discover, nodeVars, mdnsVars, shut, ctxOver, lookups>>

\* A phase that fails hands on to the next; only a failure of the last phase
\* over the given addresses, or over the found ones, is final for them.
PhaseFails ==
    /\ Connecting
    /\ phase' = CASE phase = "direct" -> IF Relay \in given THEN "all" ELSE "discover"
               [] phase = "all" -> "discover"
               [] OTHER -> "failed"
    /\ slow' = (slow \/ (phase' # "all" /\ shut # "yes" /\ ~ctxOver /\ Targets \cap live # {}))
    /\ UNCHANGED <<relaysEnabled, discover, nodeVars, mdnsVars, shut, given, ctxOver, found,
                   lookups, moved, hinted>>

-----------------------------------------------------------------------------
(***************************************************************************)
(* discover_dial                                                           *)
(***************************************************************************)
Fail ==
    /\ phase' = "failed"
    /\ UNCHANGED <<relaysEnabled, discover, nodeVars, mdnsVars, shut, given, ctxOver, found,
                   lookups, moved, slow, hinted>>

\* Nothing to discover with, the endpoint closed, or the context over.
CannotDiscover == phase = "discover" /\ (~discover \/ shut = "yes" \/ ctxOver) /\ Fail

\* The first answer that names an address is taken, without relays if there
\* are none here.
TakeAnswer(addrs) ==
    /\ found' = addrs
    /\ phase' = IF Usable(addrs) = {} THEN "failed" ELSE "found"

\* resolve: from the cache at once, or by a query that is then polled for.
Discover ==
    /\ phase = "discover" /\ discover /\ shut # "yes" /\ ~ctxOver
    /\ hinted' = (cache # NotHeard /\ Usable(cache) \cap live # {})
    /\ IF cache # NotHeard
       THEN TakeAnswer(cache) /\ UNCHANGED lookups
       ELSE /\ phase' = "lookup" /\ found' = found
            /\ lookups' = IF relaysEnabled THEN {"mdns", "dns"} ELSE {"mdns"}
    /\ UNCHANGED <<relaysEnabled, discover, nodeVars, mdnsVars, shut, given, ctxOver, moved, slow>>

Poll ==
    /\ phase = "lookup" /\ "mdns" \in lookups /\ cache # NotHeard
    /\ TakeAnswer(cache) /\ lookups' = {}
    /\ UNCHANGED <<relaysEnabled, discover, nodeVars, mdnsVars, shut, given, ctxOver, moved,
                   slow, hinted>>

\* MDNS_LOOKUP_TIMEOUT passes; the DNS service (external) has no more answers.
LookupEnds(service) ==
    /\ phase = "lookup" /\ service \in lookups
    /\ lookups' = lookups \ {service}
    /\ UNCHANGED <<relaysEnabled, discover, nodeVars, mdnsVars, shut, phase, given, ctxOver, found,
                   moved, slow, hinted>>

\* Number0's DNS (external) answers, with what the node published last or
\* before.
DnsAnswers(addrs) ==
    /\ phase = "lookup" /\ "dns" \in lookups /\ addrs # {}
    /\ TakeAnswer(addrs) /\ lookups' = {}
    /\ UNCHANGED <<relaysEnabled, discover, nodeVars, mdnsVars, shut, given, ctxOver, moved,
                   slow, hinted>>

NobodyKnows == phase = "lookup" /\ (lookups = {} \/ ctxOver) /\ Fail

Dialling ==
    \/ Connected \/ PhaseFails
    \/ CannotDiscover \/ Discover \/ Poll \/ NobodyKnows
    \/ \E s \in {"mdns", "dns"} : LookupEnds(s)

Next ==
    \/ Dialling
    \/ Move \/ CloseDiscovery \/ CloseEndpoint \/ CtxEnds
    \/ \E a \in been : Hear(a) \/ DnsAnswers(a)
    \/ \E f \in Loops : ReadFails(f)
    \/ \E addrs \in SUBSET Addresses : Begin(addrs)

\* A connect is capped at CONNECT_PHASE_CAP and a lookup at its timeout.
Fairness == WF_dialling(Dialling)

Spec == Init /\ [][Next]_dialling /\ Fairness

\* Nobody dials.
Unbound ==
    /\ relaysEnabled = FALSE /\ discover = FALSE /\ loops = {} /\ tx = "stopped"
    /\ cache = NotHeard /\ shut = "yes"
    /\ live = {} /\ been = {{}} /\ moves = MaxMoves /\ late = 0
    /\ phase = "idle" /\ given = {} /\ ctxOver = FALSE /\ found = {} /\ lookups = {}
    /\ moved = FALSE /\ slow = FALSE /\ hinted = FALSE

-----------------------------------------------------------------------------
(***************************************************************************)
(* A dial that fails though its context is not over, the endpoint is open, *)
(* the node stayed where it was and the last connect to each address had   *)
(* the time it needed, had no way to the node: neither an address it was   *)
(* given nor the announcement in the cache when it looked there.  So a     *)
(* direct path too slow for the first phase is tried again next to the     *)
(* relays, and an answer of discovery is dialled at once.  A listener that *)
(* is not gone sends its queries from its own sockets.                     *)
(***************************************************************************)
FailedHadNoWay ==
    /\ phase = "failed" /\ ~ctxOver /\ shut = "no" /\ ~moved /\ ~slow =>
        Usable(given) \cap live = {} /\ ~hinted
    /\ (tx = "listening") = ("v4" \in loops)

\* Every dial comes to an end.
DialReturns == (phase \notin {"idle", "failed"}) ~> (phase \in {"idle", "failed"})
=============================================================================
