----------------------------- MODULE TrafficPaths -----------------------------
(***************************************************************************)
(* Where the rendered configuration sends a connection (vpn_installer/     *)
(* routing_policy.py, render.py): the rules of the gateway's router and of *)
(* its Xray front, the overlay that leads to the exit node, the filter     *)
(* there, and the parts of the system each way depends on.  The operator's *)
(* own rules (admin_apply.py) come before those of the policy.             *)
(***************************************************************************)
EXTENDS FiniteSets, Sequences, SequencesExt

Topologies == {"dual", "single"}
\* Kinds of destination addresses: private or fake, listed by the operator as blocked,
\* the gateway's own, Russian, other IPv4, other IPv6.
Addresses == {"private", "blocked", "own", "russian", "foreign", "foreign6"}
\* Lists a destination name may be in, beside being a name ("any"): the global
\* domains, those the environment forces direct, the Russian rule set, those an
\* operator has a rule for.
Names == {{"any"}, {"any", "global"}, {"any", "forced"}, {"any", "geosite"},
          {"any", "global", "forced"}, {"any", "forced", "geosite"},
          {"any", "listed"}, {"any", "global", "listed"}, {"any", "geosite", "listed"}}

\* The parts a way through the system may need.
Parts == {"wan", "cache", "front", "router", "interface", "wireguard", "hysteria",
          "exit-wan", "exit-dns"}
Candidates == {"wireguard", "hysteria"}
-----------------------------------------------------------------------------
(* Rules.  A rule matches a list of names or some addresses, or the DNS port of the
   public Hysteria2 entrance, and resolves the name, routes, or rejects. *)

Named(list, verb, to) == [by |-> "name", lists |-> {list}, kinds |-> {}, verb |-> verb, to |-> to]
At(kinds, verb, to) == [by |-> "address", lists |-> {}, kinds |-> kinds, verb |-> verb, to |-> to]
HysteriaDns(to) == [by |-> "hy2-dns", lists |-> {}, kinds |-> {}, verb |-> "route", to |-> to]

\* A class of traffic is a list of names with its resolver and outbound, and whether
\* the guards stand between the two; or it adds a guard, or a route of addresses.
Class(list, server, outbound, guarded) ==
    [verb |-> "names", list |-> list, server |-> server, outbound |-> outbound,
     guarded |-> guarded]
ByName(list, server, outbound) == Class(list, server, outbound, TRUE)
Guard(kinds) == At(kinds, "reject", "")
ByAddress(kinds, outbound) == At(kinds, "route", outbound)

\* Mutant: the operator's direct names are compiled without the guards.
DualUnguarded ==
    << ByName("global", "dns-global", "to-foreign"),
       Class("forced", "dns-ru-direct", "direct-ru", FALSE),
       Class("geosite", "dns-ru-direct", "direct-ru", FALSE),
       ByName("any", "dns-global", "to-foreign"),
       Guard({"blocked"}), Guard({"private"}),
       ByAddress({"own"}, "direct-ru"), ByAddress({"russian"}, "direct-ru"),
       ByAddress({"foreign6"}, "to-foreign"), ByAddress(Addresses \ {"foreign6"}, "to-foreign") >>
\* build_ru_routing_policy
DualClasses ==
    << ByName("global", "dns-global", "to-foreign"),
       ByName("forced", "dns-ru-direct", "direct-ru"),
       ByName("geosite", "dns-ru-direct", "direct-ru"),
       ByName("any", "dns-global", "to-foreign"),
       Guard({"blocked"}), Guard({"private"}),
       ByAddress({"own"}, "direct-ru"), ByAddress({"russian"}, "direct-ru"),
       ByAddress({"foreign6"}, "to-foreign"), ByAddress(Addresses \ {"foreign6"}, "to-foreign") >>
\* build_single_gateway_routing_policy
SingleClasses ==
    << ByName("any", "dns-local", "local-egress"),
       Guard({"blocked"}), Guard({"private"}),
       ByAddress({"foreign6"}, "local-egress"),
       ByAddress(Addresses \ {"foreign6"}, "local-egress") >>
Classes(t) == IF t = "dual" THEN DualClasses ELSE SingleClasses
Final(t) == IF t = "dual" THEN "to-foreign" ELSE "local-egress"

\* RoutingPolicy.route_rules: the control rule, for each list of names its resolution,
\* the guards and its route, then the guards again and the routes of addresses.
Of(classes, verb) == SelectSeq(classes, LAMBDA c : c.verb = verb)
Compiled(classes, final) ==
    LET guards == Of(classes, "reject")
        names == Of(classes, "names")
        pair[i \in DOMAIN names] ==
            <<Named(names[i].list, "resolve", names[i].server)>>
            \o (IF names[i].guarded THEN guards ELSE <<>>)
            \o <<Named(names[i].list, "route", names[i].outbound)>>
    IN <<HysteriaDns(final)>> \o FlattenSeq(pair) \o guards \o Of(classes, "route")
BaseRules == [t \in Topologies |-> Compiled(Classes(t), Final(t))]
-----------------------------------------------------------------------------
(* The operator's rules: a name, or a public network, is sent one way.  Two rules may
   disagree, and a rule may be older than the topology. *)

OutboundLabels == {"direct-ru", "to-foreign", "local-egress"}
AdminRules == [by : {"name"}, of : {"listed"}, outbound : OutboundLabels]
              \cup [by : {"address"}, of : {"blocked", "foreign"}, outbound : OutboundLabels]
AdminLists == {<<>>} \cup {<<r>> : r \in AdminRules}
              \cup {<<r, s>> : r \in {a \in AdminRules : a.of # "blocked" /\ a.outbound = "direct-ru"},
                              s \in {a \in AdminRules : a.of # "blocked" /\ a.outbound = "to-foreign"}}

\* outbound_catalog: where a rule may send its traffic, and which server then resolves.
Catalog(t) ==
    [o \in IF t = "dual" THEN {"direct-ru", "to-foreign"} ELSE {"local-egress"} |->
        CASE o = "direct-ru" -> "dns-ru-direct"
          [] o = "to-foreign" -> "dns-global"
          [] o = "local-egress" -> "dns-local"]
\* reconcile_rules_with_catalog disables a rule whose outbound the topology lacks.
Enabled(t, admin) == SelectSeq(admin, LAMBDA r : r.outbound \in DOMAIN Catalog(t))

\* route_insert_index knows the control rules of a dual gateway only: on a single one
\* the operator's rules come before the rule for the clients' DNS.
InsertIndex(rules) ==
    IF rules # <<>> /\ rules[1].by = "hy2-dns" /\ rules[1].to = "to-foreign" THEN 1 ELSE 0

\* Mutant: the operator's names are inserted without the guards.
InsertUnguarded(t, admin) ==
    LET inserts[i \in DOMAIN admin] ==
            IF admin[i].by = "address" THEN <<At({admin[i].of}, "route", admin[i].outbound)>>
            ELSE <<Named(admin[i].of, "resolve", Catalog(t)[admin[i].outbound]),
                   Named(admin[i].of, "route", admin[i].outbound)>>
    IN FlattenSeq(inserts)
\* apply_admin_rules_to_config: what is inserted for the enabled rules, in their order.
Inserts(t, admin) ==
    LET guards == Of(Classes(t), "reject")
        inserts[i \in DOMAIN admin] ==
            IF admin[i].by = "address" THEN guards \o <<At({admin[i].of}, "route", admin[i].outbound)>>
            ELSE <<Named(admin[i].of, "resolve", Catalog(t)[admin[i].outbound])>>
                 \o guards \o <<Named(admin[i].of, "route", admin[i].outbound)>>
    IN FlattenSeq(inserts)
Applied(t, admin) ==
    LET base == BaseRules[t]
        index == InsertIndex(base)
    IN SubSeq(base, 1, index) \o Inserts(t, Enabled(t, admin)) \o SubSeq(base, index + 1, Len(base))
RouteRules == [t \in Topologies |-> [admin \in AdminLists |-> Applied(t, admin)]]
-----------------------------------------------------------------------------
(* Connections: where one enters, its destination by name or address, and what the
   near and the far resolver answer for the name.  A name beside an address was
   sniffed from the first bytes.  The probe is the operator's local SOCKS entrance. *)

Entrances == {"xray-tcp", "xray-udp", "hy2", "hy2-dns", "probe"}
NoName == {}
Answers == {<<"private", "foreign">>, <<"blocked", "foreign">>, <<"russian", "foreign">>,
            <<"foreign", "private">>, <<"foreign", "blocked">>, <<"russian", "russian">>}
Connections ==
         {[entrance |-> e, name |-> n, literal |-> "none", near |-> a[1], far |-> a[2]] :
             e \in Entrances, n \in Names, a \in Answers}
    \cup [entrance : Entrances, name : {NoName}, literal : Addresses, near : {"none"}, far : {"none"}]
    \cup [entrance : Entrances \ {"hy2", "hy2-dns"}, name : Names, literal : Addresses,
          near : {"russian"}, far : {"foreign"}]

\* What reaches the far side depends on the parts that are up and on the candidate
\* the selector of the transport stands at: the overlay's packets go through the relay
\* inside the router.
OverlayParts(selected) == {"router", "interface", selected, "wan", "exit-wan"}
Overlay(up, selected) == OverlayParts(selected) \subseteq up
\* The exit's resolver is reached through a relay inbound of the sing-box there, the
\* process that also serves Hysteria2, whichever candidate the overlay runs over.
ExitResolver(up, selected) == Overlay(up, selected) /\ {"hysteria", "exit-dns"} \subseteq up
\* What a resolver answers, "none" when it cannot be reached.  A resolution names its
\* server, so the DNS rules have no say in it.
Resolve(server, c, up, selected) ==
    IF server = "dns-global"
    THEN IF ExitResolver(up, selected) THEN c.far ELSE "none"
    ELSE IF {"cache", "wan"} \subseteq up THEN c.near ELSE "none"

\* One rule of the router on a connection under way: addresses are what its IP rules
\* see, to is where it goes once a rule has decided.
Matches(rule, s) ==
    CASE rule.by = "name" -> rule.lists \cap s.c.name # {}
      [] rule.by = "address" -> s.address \in rule.kinds
      [] rule.by = "hy2-dns" -> s.c.entrance = "hy2-dns"
Step(s, rule, up, selected) ==
    IF s.to # "open" \/ ~Matches(rule, s) THEN s
    ELSE CASE rule.verb = "reject" -> [s EXCEPT !.to = "reject"]
           [] rule.verb = "route" -> [s EXCEPT !.to = rule.to]
           [] rule.verb = "resolve" /\ s.c.literal # "none" -> s
           [] rule.verb = "resolve" /\ s.c.literal = "none" ->
                LET answer == Resolve(rule.to, s.c, up, selected) IN
                IF answer = "none" THEN [s EXCEPT !.to = "reject"] ELSE [s EXCEPT !.address = answer]
Routed(t, admin, c, up, selected) ==
    LET start == [c |-> c, address |-> c.literal, to |-> "open"]
        end == FoldLeft(LAMBDA s, rule : Step(s, rule, up, selected), start, RouteRules[t][admin])
    IN IF end.to = "open" THEN [end EXCEPT !.to = Final(t)] ELSE end

\* A direct outbound that was given a name looks it up itself.
Dialled(s, server, up, selected) ==
    IF s.address = "none" THEN Resolve(server, s.c, up, selected) ELSE s.address
\* The stable outbound is bound to the overlay's interface and mark: without the
\* overlay nothing leaves.  The exit node forwards from the overlay to its own
\* uplink, and may drop Russian destinations.
Through(address, up, selected, blockRussian) ==
    IF address # "none" /\ Overlay(up, selected) /\ ~(blockRussian /\ address = "russian")
    THEN "exit" ELSE "nowhere"
Router(t, admin, c, up, selected, blockRussian) ==
    IF "router" \notin up THEN "nowhere"
    ELSE LET s == Routed(t, admin, c, up, selected) IN
         CASE s.to = "reject" -> "nowhere"
           [] s.to = "to-foreign" ->
                Through(Dialled(s, "dns-global", up, selected), up, selected, blockRussian)
           [] s.to \in {"direct-ru", "local-egress"} ->
                IF Dialled(s, "dns-local", up, selected) # "none" /\ "wan" \in up
                THEN "gateway" ELSE "nowhere"

\* The Xray front puts a sniffed name in the place of the address.  TCP goes to the
\* router; UDP to a private address nowhere, other UDP over the overlay, the name
\* looked up there without the router's guards.  A single gateway sends all to the router.
Fronted(c) == IF c.name # NoName THEN [c EXCEPT !.literal = "none"] ELSE c
Xray(t, admin, c, up, selected, blockRussian) ==
    LET d == Fronted(c)
        found == IF d.literal # "none" THEN d.literal
                 ELSE IF ExitResolver(up, selected) THEN d.far ELSE "none"
    IN IF "front" \notin up \/ (c.entrance = "xray-udp" /\ d.literal = "private") THEN "nowhere"
       ELSE IF t = "dual" /\ c.entrance = "xray-udp" THEN Through(found, up, selected, blockRussian)
       ELSE Router(t, admin, d, up, selected, blockRussian)
\* Where a connection leaves the system.
Outcome(t, admin, c, up, selected, blockRussian) ==
    IF c.entrance \in {"xray-tcp", "xray-udp"} THEN Xray(t, admin, c, up, selected, blockRussian)
    ELSE Router(t, admin, c, up, selected, blockRussian)
-----------------------------------------------------------------------------
(* What the rendered configuration means to do with a connection. *)

Met(c) == IF c.entrance \in {"xray-tcp", "xray-udp"} THEN Fronted(c) ELSE c
\* The two ways around the router's rules, the operator's and the guards among them: UDP
\* that a dual gateway's front carries over the overlay, where only private literals are
\* looked for; and DNS of the Hysteria2 clients, but for what a single gateway's operator
\* has a rule for.
Chosen(t, admin, c) ==
    SelectSeq(Enabled(t, admin), LAMBDA r :
        IF r.by = "name" THEN r.of \in c.name ELSE r.of = Met(c).literal)
Carried(t, c) == t = "dual" /\ c.entrance = "xray-udp"
Exempt(t, admin, c) ==
    \/ Carried(t, c) /\ (c.name # NoName \/ c.literal # "private")
    \/ /\ c.entrance = "hy2-dns"
       /\ t = "single" => IF c.literal = "none" THEN Chosen(t, admin, c) = <<>>
                                                ELSE Enabled(t, admin) = <<>>

\* The operator's first rule decides, then the name by the precedence of the classes;
\* without a name the address does.
Direct(t, admin, c) ==
    LET chosen == Chosen(t, admin, c) IN
    IF chosen # <<>> THEN chosen[1].outbound # "to-foreign"
    ELSE IF c.name # NoName THEN "global" \notin c.name /\ c.name \cap {"forced", "geosite"} # {}
    ELSE c.literal \in {"own", "russian"}
ToExit(t, admin, c) ==
    t = "dual" /\ (Carried(t, c) \/ Exempt(t, admin, c) \/ ~Direct(t, admin, c))
Asked(t, admin, c) ==
    IF Met(c).literal # "none" THEN Met(c).literal
    ELSE IF ToExit(t, admin, c) THEN c.far ELSE c.near
\* A private or blocked destination is not served, whatever the operator's rules say,
\* unless the connection is exempt.  What is exempt is served whatever it asks for: at
\* the exit of a dual system, even where a rule or a list says blocked or direct, and at
\* the gateway of a single one.
Intended(t, admin, c) ==
    IF Asked(t, admin, c) \in {"private", "blocked"} /\ ~Exempt(t, admin, c) THEN "nowhere"
    ELSE IF ToExit(t, admin, c) THEN "exit" ELSE "gateway"
=============================================================================
