-------------------------------- MODULE Routing --------------------------------
(***************************************************************************)
(* The routing configurations and the way of a packet through them         *)
(* (src-tauri/src/vpn/config.rs, and the sing-box half of lib.rs).         *)
(*                                                                         *)
(* A request is turned into rules for xray, for sing-box, or, in TUN mode, *)
(* for a sing-box bridge in front of xray. With rules for programs a       *)
(* bridge of its own goes before either engine in system-proxy mode. Each  *)
(* engine takes the first rule that matches. A packet may pass a bridge,   *)
(* sing-box, xray, their DNS modules and, as a packet of xray, the bridge  *)
(* again.                                                                  *)
(***************************************************************************)
EXTENDS Naturals, Sequences, FiniteSets, Lists

CONSTANTS
  Profiles,      \* the Xray configurations the service hands out, each with a policy
  Subscriptions, \* the Xray configurations of subscriptions, which come without
  Policies,      \* the signed routing policies
  RuleSets,      \* the sets of rules of the user
  Steam,         \* STEAM_DIRECT_XRAY_DOMAINS
  SteamProcs,    \* STEAM_DIRECT_PROCESS_NAMES
  DefaultDirect, \* the domains that are direct without a policy
  Marker,        \* 2ip.ru, by which a default direct rule is recognised
  Geosite,       \* the selectors that need geosite data
  Geoip,         \* the address selectors of data files, but for geoip:private
  Unsupported,   \* the selectors xray cannot load
  Selectors,     \* what a rule may name: domains, programs, addresses and data files
  Names,         \* the tags of inbounds, outbounds, balancers and resolvers
  Entries,       \* those that begin with entry-
  Domains, Procs, Addresses,
  None

VARIABLES
  request, \* the ConnectRequest
  graph,   \* the configurations built from it
  packet,  \* a packet an application sends, or a statistics query
  leg,     \* the packet as the engine at hand sees it
  via,     \* how a packet xray has sent leaves the machine
  at       \* where the packet is

vars == <<request, graph, packet, leg, via, at>>

Split(req) == req.policy # None /\ req.policy.mode = "split"
Tun(req) == req.mode = "tun"

-----------------------------------------------------------------------------
(* The data.                                                               *)

Rules ==
  [inbound : SUBSET Names, process : SUBSET Selectors, domain : SUBSET Selectors,
   ip : SUBSET Selectors, dns : BOOLEAN, all : BOOLEAN, out : Names]
Outbounds ==
  [tag : Names, protocol : {"vless", "hysteria2", "unknown", "freedom", "blackhole", "dns"}]
Balancers == [tag : Names, selects : SUBSET Names]
Configs ==
  [outbounds : Seq(Outbounds), balancers : SUBSET Balancers, observatory : BOOLEAN,
   rules : Seq(Rules), dns : SUBSET Selectors]
Boxes == [rules : Seq(Rules), dns : Seq(Rules), proxy : {"proxy", "block"}]
Configurations == [xray : Configs \cup {None}, box : Boxes \cup {None}, apps : Seq(Rules)]

PacketForms ==
  [inbound : {"app", "tun", "api", "dns-direct", "dns-remote"}, process : Procs \cup {"xray", "other"},
   domain : Domains \cup {"doh", "api", "unseen"}, dns : BOOLEAN,
   ip : Addresses \cup {"unknown", "public", "loopback"}]

RoutingPolicies ==
  [mode : {"full_tunnel", "split"}, direct : SUBSET Selectors, dns : SUBSET Selectors,
   ranges : SUBSET Selectors, asset : BOOLEAN]
RoutingRules == [type : {"domain", "exe"}, value : Selectors, action : {"proxy", "direct", "block"}]

\* No rule names the resolver, a public address, an address or a name not known yet; no
\* application is called xray; the tags the client gives do not begin with entry-.
ASSUME ConstantsAssumption ==
  /\ Policies \subseteq RoutingPolicies /\ \A u \in RuleSets : u \subseteq RoutingRules
  /\ Steam \cup SteamProcs \cup DefaultDirect \cup {"private", "xray"} \subseteq Selectors
  /\ Steam # {}
  /\ {"doh", "unseen", "unknown", "public"} \cap Selectors = {} /\ "xray" \notin Procs \cup SteamProcs
  /\ {"proxy", "direct", "block", "dns-out", "api", "balancer", "hijack", "dns-direct",
      "dns-remote", "dns-fakeip"} \cup Entries \subseteq Names
  /\ {"proxy", "direct", "block", "dns-out", "api"} \cap Entries = {}
  /\ None \notin Configs /\ None \notin Boxes /\ None \notin Configurations
  /\ None \notin RoutingPolicies /\ None \notin PacketForms /\ None \notin Names

-----------------------------------------------------------------------------
(* Rules: every field that is given has to match.                          *)

Rule == [inbound |-> {}, process |-> {}, domain |-> {}, ip |-> {}, dns |-> FALSE,
         all |-> FALSE, out |-> None]

\* the name a query asks for is not the destination of its packet
Matches(r, p) ==
  /\ r.inbound # {} => p.inbound \in r.inbound
  /\ r.process # {} => p.process \in r.process
  /\ r.domain # {} => p.domain \in r.domain /\ ~p.dns
  /\ r.ip # {} => p.ip \in r.ip
  /\ r.dns => p.dns

Effective(r) == r.inbound # {} \/ r.domain # {} \/ r.ip # {} \/ r.dns \/ r.all

FirstMatch(rules, p, default) ==
  LET found == {i \in DOMAIN rules : Matches(rules[i], p)}
  IN IF found = {} THEN default ELSE rules[CHOOSE i \in found : \A j \in found : i <= j].out

When(given, r) == IF given THEN <<r>> ELSE << >>
Exists(rules, Test(_)) == \E i \in DOMAIN rules : Test(rules[i])

ApiRule == [Rule EXCEPT !.inbound = {"api"}, !.out = "api"]
Port53 == [Rule EXCEPT !.dns = TRUE, !.out = "dns-out"]
IsApi(r) == "api" \in r.inbound
IsPort53(r) == r.dns /\ r.out = "dns-out"
DomainRule(names, out) == [Rule EXCEPT !.domain = names, !.out = out]
AddressRule(ranges, out) == [Rule EXCEPT !.ip = ranges, !.out = out]
ProcessRule(names, out) == [Rule EXCEPT !.process = names, !.out = out]

-----------------------------------------------------------------------------
(* What the policy, or its absence, makes direct.                          *)

TrafficDomains(req) ==
  Steam \cup (IF req.policy = None THEN DefaultDirect
              ELSE IF Split(req) THEN req.policy.direct ELSE {})

\* mutant: a split policy without DNS domains of its own leaves DNS to the tunnel
DnsDomainsOfPolicy(req) ==
  Steam \cup (IF req.policy = None THEN DefaultDirect ELSE req.policy.dns)

DnsDomains(req) ==
  Steam \cup (IF req.policy = None THEN DefaultDirect
              ELSE IF ~Split(req) THEN {}
              ELSE IF req.policy.dns # {} THEN req.policy.dns ELSE req.policy.direct)

UserDomains(req, action) == {r.value : r \in {u \in req.rules : u.type = "domain" /\ u.action = action}}
UserProcs(req, action) ==
  {r.value : r \in {u \in req.rules : u.type = "exe" /\ u.action = action}}
    \cup (IF action = "direct" /\ Tun(req) THEN SteamProcs ELSE {})

-----------------------------------------------------------------------------
(* The configuration of xray.                                              *)

Tags(outbounds) == {outbounds[i].tag : i \in DOMAIN outbounds}

IsCandidate(o) == o.tag \in Entries /\ o.protocol = "vless"
Candidates(c) == {o \in Elems(c.outbounds) : IsCandidate(o)}
IsManaged(c) ==
  /\ Cardinality(Candidates(c)) >= 2 /\ c.observatory
  /\ \E b \in c.balancers : b.tag = "balancer" /\ b.selects = Entries

\* a profile of the service that is not balanced has to have a proxy
HasProxy(c) == \E o \in Elems(c.outbounds) : o.tag = "proxy" /\ o.protocol = "vless"

\* xray refuses a configuration in which a tag stands for two things
TagsAreUnique(c) ==
  /\ \A o, q \in Elems(c.outbounds) : o.tag = q.tag => o = q
  /\ \A b, d \in c.balancers : b.tag = d.tag => b = d

ASSUME ProfilesAssumption ==
  /\ \A c \in Profiles \cup Subscriptions : c \in Configs /\ TagsAreUnique(c)
  /\ \A c \in Profiles : IsManaged(c) \/ HasProxy(c)

\* a rule loses the selectors xray cannot load, and goes if it has no condition left
Strip(rules, domains, addresses) ==
  Retain([i \in DOMAIN rules |->
            [rules[i] EXCEPT !.domain = @ \ domains, !.ip = @ \ addresses]],
         {r \in Rules : Effective(r)})

Sanitize(c) == [c EXCEPT !.rules = Strip(@, Unsupported, Unsupported)]

\* what a policy leaves of a profile's outbounds
KeepsManaged(o) ==
  IsCandidate(o) \/ o.tag \in {"dns-out", "api"} \/ o.protocol = "blackhole"
    \/ (o.tag = "direct" /\ o.protocol = "freedom")
KeepsPlain(o) ==
  o.tag \in {"proxy", "dns-out", "api"} \/ o.protocol = "blackhole"
    \/ (o.tag = "direct" /\ o.protocol = "freedom")

ProxyFirst(outbounds) ==
  Retain(outbounds, {o \in Outbounds : o.tag = "proxy"})
    \o Retain(outbounds, {o \in Outbounds : o.tag # "proxy"})

ConstrainManaged(c) ==
  [c EXCEPT !.outbounds = Retain(@, {o \in Outbounds : KeepsManaged(o)}),
            !.balancers = {b \in @ : b.tag = "balancer"},
            !.rules = << >>]

ConstrainPlain(c) ==
  LET kept == Retain(c.outbounds, {o \in Outbounds : KeepsPlain(o)})
  IN [c EXCEPT !.outbounds = ProxyFirst(kept), !.balancers = {},
               !.rules = Retain(@, {r \in Rules : r.out \in Tags(kept)})]

\* mutant: the profile's own balancers and outbounds survive a policy
ConstrainManagedOnly(c, req) == IF req.policy # None /\ IsManaged(c) THEN ConstrainManaged(c) ELSE c

Constrain(c, req) ==
  IF req.policy = None THEN c
  ELSE IF IsManaged(c) THEN ConstrainManaged(c) ELSE ConstrainPlain(c)

\* mutant: the DNS outbound is left to the profile
EnsureWithoutDns(outbounds) ==
  LET Add(os, o) == IF o.tag \in Tags(os) THEN os ELSE Append(os, o)
  IN Add(Add(outbounds, [tag |-> "direct", protocol |-> "freedom"]),
         [tag |-> "api", protocol |-> "blackhole"])

EnsureOutbounds(outbounds) ==
  LET Add(os, o) == IF o.tag \in Tags(os) THEN os ELSE Append(os, o)
  IN Add(Add(Add(outbounds, [tag |-> "direct", protocol |-> "freedom"]),
             [tag |-> "dns-out", protocol |-> "dns"]),
         [tag |-> "api", protocol |-> "blackhole"])

\* the DNS rules an earlier build left, and the direct rules a policy replaces
Retained(rules, req) ==
  Retain(rules, {r \in Rules : /\ r.inbound \cap {"dns-direct", "dns-remote"} = {}
                               /\ req.policy # None => r.out # "direct"})

\* mutant: the rule of the statistics interface goes to the end
WithApiLast(rules) == IF Exists(rules, IsApi) THEN rules ELSE Append(rules, ApiRule)
WithApi(rules) == IF Exists(rules, IsApi) THEN rules ELSE <<ApiRule>> \o rules

\* a direct rule that names 2ip.ru is taken for the default split
HasDefaultDirect(r) == r.out = "direct" /\ Marker \in r.domain

ResolverRules(req, legacy, target) ==
  LET managed == req.policy # None \/ legacy
  IN When(managed /\ DnsDomains(req) # {}, [Rule EXCEPT !.inbound = {"dns-direct"}, !.out = "direct"])
     \o When(managed, [Rule EXCEPT !.inbound = {"dns-remote"}, !.out = target])

DirectRules(rules, req, legacy) ==
  LET direct == IF req.policy # None \/ legacy THEN TrafficDomains(req) ELSE {}
      private(r) == r.out = "direct" /\ "private" \in r.ip
  IN When(direct # {} /\ ~(req.policy = None /\ Exists(rules, HasDefaultDirect)),
          DomainRule(direct, "direct"))
     \o When(legacy /\ req.policy = None /\ ~Exists(rules, private), AddressRule({"private"}, "direct"))
     \o When(Split(req) /\ req.policy.ranges # {}, AddressRule(req.policy.ranges, "direct"))

\* mutant: the generic interception of DNS comes before the resolvers' own rules
AdditionsPort53First(rules, req, legacy, target) ==
  When(~Exists(rules, IsPort53), Port53) \o ResolverRules(req, legacy, target)
    \o DirectRules(rules, req, legacy)

Additions(rules, req, legacy, target) ==
  ResolverRules(req, legacy, target) \o When(~Exists(rules, IsPort53), Port53)
    \o DirectRules(rules, req, legacy)

\* the additions go behind the first rule of the statistics interface, wherever it is
ApplyPolicy(c, req, legacy) ==
  LET target == IF IsManaged(c) THEN "balancer" ELSE "proxy"
      rules == WithApi(Retained(c.rules, req))
      api == CHOOSE i \in DOMAIN rules : IsApi(rules[i]) /\ \A j \in 1 .. i - 1 : ~IsApi(rules[j])
  IN [c EXCEPT !.rules =
        SubSeq(rules, 1, api) \o Additions(rules, req, legacy, target)
          \o SubSeq(rules, api + 1, Len(rules))
          \o When(req.policy # None, [Rule EXCEPT !.all = TRUE, !.out = target])]

\* a profile keeps its own DNS unless a policy comes with the request
Inject(profile, req) ==
  LET c == Constrain(Sanitize(profile), req)
      ensured == [c EXCEPT !.outbounds = EnsureOutbounds(@), !.rules = WithApi(@),
                           !.dns = IF req.policy # None THEN DnsDomains(req) ELSE @]
  IN ApplyPolicy(ensured, req, FALSE)

BuildOutbounds(req) ==
  <<[tag |-> "proxy", protocol |-> req.protocol], [tag |-> "direct", protocol |-> "freedom"],
    [tag |-> "block", protocol |-> "blackhole"], [tag |-> "dns-out", protocol |-> "dns"],
    [tag |-> "api", protocol |-> "blackhole"]>>

UserRules(req) ==
  LET For(action) == When(UserDomains(req, action) # {}, DomainRule(UserDomains(req, action),
                                                                    action))
  IN For("proxy") \o For("direct") \o For("block")

Build(req) ==
  ApplyPolicy([outbounds |-> BuildOutbounds(req), balancers |-> {}, observatory |-> FALSE,
               rules |-> <<ApiRule, Port53>> \o UserRules(req), dns |-> DnsDomains(req)],
              req, TRUE)

Xray(req) == IF req.profile # None THEN Inject(req.profile, req) ELSE Build(req)

-----------------------------------------------------------------------------
(* In the network extension xray reads the tunnel itself.                  *)

Geodata == Geosite \cup Unsupported
NeedsGeosite(req) == req.policy # None /\ (req.policy.direct \cup req.policy.dns) \cap Geodata # {}
HasAsset(req) == req.policy # None /\ req.policy.asset

\* of the selectors of data files geoip:private stays, written out as ranges
RewriteGeodata(rules, keep) ==
  Strip(rules, IF keep THEN {} ELSE Geodata, Geoip \cup Unsupported)

Prepare(c, keep) ==
  [c EXCEPT !.outbounds = Retain(@, {o \in Outbounds : o.tag # "api"}),
            !.rules = RewriteGeodata(Retain(@, {r \in Rules : r.out # "api" /\ ~IsApi(r)}), keep)]

-----------------------------------------------------------------------------
(* The configuration of sing-box.                                          *)

Supported(req) == req.protocol \in {"vless", "hysteria2"}
\* "ws" stands for the transports only xray has, ws and xhttp
UsesXray(req) == req.profile # None \/ req.transport = "ws" \/ req.protocol = "vless"

\* mutant: what sing-box does not know goes out directly
BoxProxyOpen(req) == IF Supported(req) THEN "proxy" ELSE "direct"

\* fails closed
BoxProxy(req) == IF Supported(req) THEN "proxy" ELSE "block"

ToSingbox(selectors) == selectors \ Geodata

Hijack == [Rule EXCEPT !.dns = TRUE, !.out = "hijack"]
Processes(req, action) == When(UserProcs(req, action) # {}, ProcessRule(UserProcs(req, action), action))

PolicyRules(req) ==
  When(ToSingbox(TrafficDomains(req)) # {}, DomainRule(ToSingbox(TrafficDomains(req)), "direct"))
    \o When(Split(req) /\ req.policy.ranges # {}, AddressRule(req.policy.ranges, "direct"))

BoxRules(req) ==
  LET For(action) == When(UserDomains(req, action) # {}, DomainRule(UserDomains(req, action), action))
                       \o Processes(req, action)
  IN <<Hijack>> \o When(Tun(req) /\ req.policy = None, AddressRule({"private"}, "direct"))
       \o For("proxy") \o For("direct") \o For("block") \o PolicyRules(req)

\* what both bridges ask of an application's packet
Sorted(req) ==
  Processes(req, "block") \o Processes(req, "direct") \o Processes(req, "proxy")
    \o PolicyRules(req) \o When(req.policy = None, AddressRule({"private"}, "direct"))

\* "xray" stands for the programs of both engines
Bypass == ProcessRule({"xray"}, "direct")

\* mutant: xray's own packets are not told from the others
BridgeRulesWithoutBypass(req) == <<Hijack>> \o Sorted(req)

\* the last rule, UDP to a second socks outbound of the same port, changes nothing here
BridgeRules(req) == <<Hijack, Bypass>> \o Sorted(req)

\* the bridge of system-proxy mode, for the programs the user has rules for: it hijacks
\* nothing and does not sniff
PerApp(req) ==
  ~Tun(req) /\ \E action \in {"proxy", "direct", "block"} : UserProcs(req, action) # {}
AppRules(req) == IF PerApp(req) THEN <<Bypass>> \o Sorted(req) ELSE << >>

\* DNS rules look at the name asked for
DnsRules(req, names, mode) ==
  When(UserProcs(req, "direct") # {}, ProcessRule(UserProcs(req, "direct"), "dns-direct"))
    \o When(names # {}, DomainRule(names, "dns-direct"))
    \o When(mode = "fakeip", [Rule EXCEPT !.all = TRUE, !.out = "dns-fakeip"])

BoxDns(req) == DnsRules(req, UserDomains(req, "direct") \cup ToSingbox(TrafficDomains(req)), req.dns_mode)
BridgeDns(req) == DnsRules(req, ToSingbox(DnsDomains(req)), "realip")

Bridge(req) == [rules |-> BridgeRules(req), dns |-> BridgeDns(req), proxy |-> "proxy"]
Box(req) == [rules |-> BoxRules(req), dns |-> BoxDns(req), proxy |-> BoxProxy(req)]

-----------------------------------------------------------------------------
(* Building.                                                               *)

\* mutant: a probe keeps the mode and the rules of the connection
PingRequestAsIs(req) == [req EXCEPT !.dns_mode = "realip"]

\* a probe of a server's latency builds its own configuration
PingRequest(req) == [req EXCEPT !.mode = "system-proxy", !.dns_mode = "realip", !.rules = {}]

Graph(req) ==
  IF ~UsesXray(req) THEN [xray |-> None, box |-> Box(req), apps |-> AppRules(req)]
  ELSE IF req.app_store /\ ~req.ping
       THEN [xray |-> Prepare(Xray(req), HasAsset(req)), box |-> None, apps |-> << >>]
  ELSE [xray |-> Xray(req), box |-> IF Tun(req) THEN Bridge(req) ELSE None,
        apps |-> AppRules(req)]

Refused(req) ==
  IF req.app_store THEN NeedsGeosite(req) /\ ~HasAsset(req)
  ELSE req.profile = None /\ ~Supported(req)

\* the geosite data of a policy may not arrive
Refuse ==
  /\ at = "request" /\ ~request.ping
  /\ Refused(request) \/ (request.app_store /\ HasAsset(request))
  /\ at' = "refused"
  /\ UNCHANGED <<request, graph, packet, leg, via>>

BuildGraph ==
  LET req == IF request.ping THEN PingRequest(request) ELSE request IN
  /\ at = "request" /\ (req.ping \/ ~Refused(req))
  /\ at' = "ready" /\ request' = req /\ graph' = Graph(req)
  /\ UNCHANGED <<packet, leg, via>>

-----------------------------------------------------------------------------
(* A packet's way.                                                         *)

Packets ==
  [inbound : {"app"}, process : Procs, domain : Domains, dns : BOOLEAN,
   ip : IF Tun(request) THEN Addresses \ {"unknown"} ELSE Addresses]
\* what the bridge of system-proxy mode takes of applications that do not use the proxy
Captured == {[p EXCEPT !.inbound = "tun"] : p \in {q \in Packets : q.ip # "unknown"}}
StatsQuery == [inbound |-> "api", process |-> "other", domain |-> "api", dns |-> FALSE, ip |-> "loopback"]

Send ==
  /\ at = "ready"
  /\ \/ /\ packet' \in Packets
        /\ at' = IF graph.box # None THEN "box" ELSE "xray"
     \/ graph.apps # << >> /\ packet' \in Captured /\ at' = "apps"
     \/ /\ graph.xray # None /\ (request.ping \/ ~request.app_store)
        /\ packet' = StatsQuery /\ at' = "xray"
  /\ leg' = packet'
  /\ UNCHANGED <<request, graph, via>>

\* DNS over HTTPS to a public resolver
Doh(inbound) == [inbound |-> inbound, process |-> "xray", domain |-> "doh", dns |-> FALSE, ip |-> "public"]

\* Of what no rule is about UDP goes on to the engine and TCP leaves; nothing else tells
\* them apart. The engine takes the bridge for the program.
AppRoute ==
  LET out == FirstMatch(graph.apps, [leg EXCEPT !.domain = "unseen"], "final") IN
  /\ at = "apps"
  /\ \/ /\ out \in {"proxy", "final"}
        /\ at' = IF graph.xray # None THEN "xray" ELSE "box"
        /\ leg' = [leg EXCEPT !.inbound = "app", !.process = "xray"]
     \/ /\ out \in {"direct", "block", "final"}
        /\ at' = CASE out = "block" -> "block"
                   [] via # None -> via
                   [] OTHER -> "direct"
        /\ leg' = leg
  /\ UNCHANGED <<request, graph, packet, via>>

\* sing-box leaves through its own outbound what it does not hand to xray
BoxRoute ==
  LET out == FirstMatch(graph.box.rules, leg, "proxy") IN
  /\ at = "box"
  /\ at' = CASE out = "hijack" -> "box_dns"
             [] out = "direct" -> IF via # None THEN via ELSE "direct"
             [] out = "block" -> "block"
             [] OTHER -> IF graph.xray # None THEN "xray" ELSE graph.box.proxy
  /\ UNCHANGED <<request, graph, packet, leg, via>>

BoxResolve ==
  LET server == FirstMatch(graph.box.dns, [leg EXCEPT !.dns = FALSE], "dns-remote") IN
  /\ at = "box_dns"
  /\ at' = CASE server = "dns-direct" -> "direct"
             [] server = "dns-fakeip" -> "answered"
             [] OTHER -> IF graph.xray # None THEN "xray" ELSE graph.box.proxy
  /\ leg' = Doh("app")
  /\ UNCHANGED <<request, graph, packet, via>>

\* the outbounds a tag stands for
Stands(c, tag) ==
  LET tags == IF \E b \in c.balancers : b.tag = tag
              THEN UNION {b.selects : b \in {d \in c.balancers : d.tag = tag}} ELSE {tag}
  IN {c.outbounds[i] : i \in {j \in DOMAIN c.outbounds : c.outbounds[j].tag \in tags}}

Route(o) ==
  IF o.tag = "api" THEN "api"
  ELSE CASE o.protocol = "freedom" -> "direct"
    [] o.protocol = "blackhole" -> "block"
    [] o.protocol = "dns" -> "xray_dns"
    [] OTHER -> "proxy"

\* behind a bridge what xray sends comes back as a packet of the xray process
XrayRoute ==
  /\ at = "xray"
  /\ \E o \in Stands(graph.xray, FirstMatch(graph.xray.rules, leg, graph.xray.outbounds[1].tag)) :
       IF Route(o) \in {"direct", "proxy"} /\ (graph.box # None \/ graph.apps # << >>)
       THEN /\ at' = (IF graph.box # None THEN "box" ELSE "apps") /\ via' = Route(o)
            /\ leg' = [leg EXCEPT !.process = "xray", !.inbound = "app"]
       ELSE at' = Route(o) /\ UNCHANGED <<via, leg>>
  /\ UNCHANGED <<request, graph, packet>>

XrayResolve ==
  /\ at = "xray_dns" /\ at' = "xray"
  /\ leg' = IF leg.domain \in graph.xray.dns
            THEN [leg EXCEPT !.inbound = "dns-direct", !.ip = "unknown"]
            ELSE Doh("dns-remote")
  /\ UNCHANGED <<request, graph, packet, via>>

-----------------------------------------------------------------------------

Modes == {[mode |-> "tun", app_store |-> FALSE, ping |-> FALSE],
          [mode |-> "system-proxy", app_store |-> FALSE, ping |-> FALSE],
          [mode |-> "tun", app_store |-> TRUE, ping |-> FALSE],
          [mode |-> "tun", app_store |-> FALSE, ping |-> TRUE]}
Servers == {[protocol |-> p, transport |-> t, profile |-> None] :
              p \in {"vless", "hysteria2", "unknown"}, t \in {"tcp", "ws"}}
             \cup {[protocol |-> "vless", transport |-> "tcp", profile |-> c] :
                     c \in Profiles \cup Subscriptions}

\* a lease always has a policy, a subscription never
Init ==
  /\ \E m \in Modes, s \in Servers, p \in Policies \cup {None}, u \in RuleSets,
        d \in {"fakeip", "realip"} :
       /\ m.app_store => s.protocol = "vless"
       /\ UsesXray(s) => d = "realip"
       /\ s.profile # None => s.profile \in IF p # None THEN Profiles ELSE Subscriptions
       /\ request = [mode |-> m.mode, app_store |-> m.app_store, ping |-> m.ping,
                     protocol |-> s.protocol, transport |-> s.transport,
                     profile |-> s.profile, policy |-> p, rules |-> u, dns_mode |-> d]
  /\ graph = None /\ packet = None /\ leg = None /\ via = None /\ at = "request"

Exits == {"direct", "proxy", "block", "api", "answered", "refused"}

Next == Refuse \/ BuildGraph \/ Send \/ AppRoute \/ BoxRoute \/ BoxResolve \/ XrayRoute \/ XrayResolve

Spec == Init /\ [][Next]_vars
FairSpec == Spec /\ WF_vars(Next)

-----------------------------------------------------------------------------
(* What some of the promises below ask of the profiles. Nothing in the     *)
(* client checks it.                                                       *)

\* the service's own rules come first; after them nothing looks like one of them
Leads(rules, heads, Own(_)) ==
  \E n \in 0 .. Len(rules) :
    SubSeq(rules, 1, n) \in heads /\ \A i \in n + 1 .. Len(rules) : ~Own(rules[i])

ApiLeads(c) ==
  /\ Leads(c.rules, {<< >>, <<ApiRule>>}, IsApi)
  /\ \A b \in c.balancers : b.tag # "api"

OwnRulesLead(c) ==
  LET Own(r) == IsApi(r) \/ IsPort53(r)
  IN Leads(c.rules, {<< >>, <<ApiRule>>, <<Port53>>, <<ApiRule, Port53>>}, Own)

\* the outbounds of the service's own tags are what the tags say
TagsMeanIt(c) ==
  \A o \in Elems(c.outbounds) : /\ o.tag = "direct" => o.protocol = "freedom"
                                /\ o.tag = "dns-out" => o.protocol = "dns"

\* nothing but DNS is handed to the DNS module
OnlyDnsToDns(c) == \A r \in Elems(c.rules) : r.out = "dns-out" => r.dns

\* every rule names something of the configuration that is not the statistics interface,
\* or an outbound that the client adds
RulesAreClosed(c) ==
  /\ \A r \in Elems(c.rules) :
       \/ r.out \in {"direct", "dns-out", "api"}
       \/ \E o \in Stands(c, r.out) : o.tag # "api"
  /\ \A b \in c.balancers : b.tag \notin {"direct", "dns-out", "api"}

-----------------------------------------------------------------------------
(* Properties.                                                             *)

\* Every variable keeps its type; a packet of the tunnel has a destination address.
TypeOK ==
  /\ at \in Exits \cup {"request", "ready", "apps", "box", "box_dns", "xray", "xray_dns"}
  /\ via \in {None, "direct", "proxy"}
  /\ (graph = None) = (at \in {"request", "refused"})
  /\ packet \in {None, StatsQuery} \cup Packets \cup Captured
  /\ graph # None => graph.xray # None \/ graph.box # None
  /\ at \in {"xray", "xray_dns"} => graph.xray # None
  /\ at \in {"box", "box_dns"} => graph.box # None
  /\ at = "apps" => graph.apps # << >>
  /\ request.ping /\ at # "request" => request.rules = {} /\ ~Tun(request)

\* With a signed policy nothing that is handed to the tunnel leaves past it but what the
\* policy, the user's rules for programs, the user's domain rules (sing-box) or Steam make
\* direct, whatever outbounds, balancers and rules the profile brings
\* (constrain_xray_config_to_managed_policy, apply_xray_routing_policy). In system-proxy
\* mode the bridge hands the tunnel the programs the user sends there; the others were
\* never in it. (Behind it sing-box sees the bridge as the program, which a rule of the
\* user for the engines' own program would let out.)
PolicyHolds ==
  (packet # None /\ at = "direct" /\ request.policy # None) =>
    \/ packet.domain \in Steam \cup (IF Split(request) THEN request.policy.direct ELSE {})
    \/ packet.dns /\ Split(request) /\ packet.domain \in request.policy.dns
    \/ Split(request) /\ packet.ip \in request.policy.ranges
    \/ packet.process \in UserProcs(request, "direct")
    \/ ~UsesXray(request) /\ packet.domain \in UserDomains(request, "direct")
    \/ packet.inbound = "tun" /\ (\/ packet.process \notin UserProcs(request, "proxy")
                                 \/ "xray" \in UserProcs(request, "direct"))

\* violated: with a signed policy the bridge of system-proxy mode lets through what neither
\* the policy nor a rule of the user makes direct
PolicyHoldsInBridge ==
  (packet # None /\ at = "direct" /\ request.policy # None /\ packet.inbound = "tun") =>
    \/ packet.domain \in Steam \cup request.policy.direct \cup UserDomains(request, "direct")
    \/ packet.domain \in request.policy.dns \/ packet.ip \in request.policy.ranges
    \/ packet.process \in UserProcs(request, "direct")

\* Packets no rule of the user is about, and those of programs the user sends through the
\* tunnel, to public addresses: a domain's traffic and its DNS queries leave directly
\* exactly if the split names the domain, through every engine they are handed to. Left
\* out: profiles with their own routing, policies with other DNS domains, selectors of data
\* files (sing-box drops them), a user's direct rule for 2ip.ru, and rules for the engines'
\* own programs. What the bridge of system-proxy mode lets through is not split.
SplitIsSymmetric ==
  LET Ruled(action) == packet.process \in UserProcs(request, action) IN
  (/\ packet # None /\ packet.ip = "public" /\ at \in Exits
   /\ packet.domain \notin Geodata \cup {r.value : r \in request.rules}
   /\ \/ /\ packet.inbound = "app"
         /\ packet.process \notin SteamProcs \cup {r.value : r \in request.rules}
      \/ /\ packet.inbound = "tun" /\ "xray" \notin {r.value : r \in request.rules}
         /\ Ruled("proxy") /\ ~Ruled("direct") /\ ~Ruled("block")
   /\ request.policy = None => /\ request.profile = None
                               /\ Marker \notin UserDomains(request, "direct")
   /\ request.policy # None => request.policy.dns \in {{}, request.policy.direct})
    => ((at = "direct") <=> packet.domain \in TrafficDomains(request))

\* A protocol neither engine knows is only ever probed; and where it is given to sing-box
\* it never leaves through the proxy outbound, nor past it (the last arm of
\* build_singbox_config). Over ws or xhttp a probe gives it to xray instead.
FailsClosed ==
  (packet # None /\ request.profile = None /\ ~Supported(request)) =>
    /\ request.ping
    /\ ~UsesXray(request) =>
         /\ at # "proxy"
         /\ at = "direct" => \/ packet.domain \in TrafficDomains(request)
                             \/ Split(request) /\ packet.ip \in request.policy.ranges

\* violated: over ws or xhttp xray gets a proxy outbound of that very protocol
FailsClosedEverywhere ==
  (packet # None /\ request.profile = None /\ ~Supported(request)) => at # "proxy"

\* Every rule of xray's configuration names an outbound or a balancer that is there, and
\* every balancer in it has an outbound, after sanitising, the policy and the extension.
RulesNameOutbounds ==
  (graph # None /\ graph.xray # None) =>
    \A i \in DOMAIN graph.xray.rules : Stands(graph.xray, graph.xray.rules[i].out) # {}

\* A query for traffic statistics reaches the statistics interface: its rule is found
\* before any other (build_xray_config, inject_xray_inbounds).
StatsReachApi == (packet = StatsQuery /\ at \in Exits) => at = "api"

\* Every packet leaves the engines: no query returns to the DNS module it comes from, no
\* packet of xray is tunnelled again (the order of additions in apply_xray_routing_policy).
PacketsLeave == <>(at \in Exits)
=============================================================================
