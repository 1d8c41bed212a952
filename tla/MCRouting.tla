------------------------------- MODULE MCRouting -------------------------------
EXTENDS Routing

MCEntries == {"entry-1", "entry-2", "entry-3"}
MCNames ==
  {"proxy", "direct", "block", "dns-out", "api", "balancer", "hijack", "dns-direct", "dns-remote",
   "dns-fakeip", "bypass", "blocked", "legacy", "unsafe"} \cup MCEntries
MCSelectors ==
  {"site", "geo", "torrent", "ru", "2ip.ru", "steam", "other", "app", "steam.exe", "xray",
   "private", "office", "abroad"}
MCDomains == {"site", "geo", "ru", "2ip.ru", "steam", "other"}

Vless(tag) == [tag |-> tag, protocol |-> "vless"]
Freedom(tag) == [tag |-> tag, protocol |-> "freedom"]
Profile(outbounds, balancers, rules) ==
  [outbounds |-> outbounds, balancers |-> balancers, observatory |-> balancers # {},
   rules |-> rules, dns |-> {}]

\* a profile with a split of its own, one with a balancer that bypasses the tunnel (the test
\* managed_full_tunnel_removes_raw_alternate_bypasses), and a managed balancer beside one
MCProfiles ==
  {Profile(<<Vless("proxy"), Freedom("direct"), [tag |-> "dns-out", protocol |-> "dns"]>>, {},
           <<ApiRule, Port53, [DomainRule({"geo", "torrent"}, "direct") EXCEPT !.ip = {"abroad"}],
             DomainRule({"torrent"}, "proxy")>>),
   Profile(<<Freedom("bypass"), Vless("proxy"), [tag |-> "blocked", protocol |-> "blackhole"]>>,
           {[tag |-> "legacy", selects |-> {"bypass"}]},
           <<DomainRule({"other"}, "bypass"), [Rule EXCEPT !.all = TRUE, !.out = "legacy"]>>),
   Profile(<<Vless("entry-1"), Freedom("entry-3"), Vless("entry-2"), Freedom("bypass")>>,
           {[tag |-> "balancer", selects |-> MCEntries],
            [tag |-> "unsafe", selects |-> {"bypass"}]},
           <<DomainRule({"other"}, "bypass")>>)}

Policy(direct, dns, ranges, asset) ==
  [mode |-> "split", direct |-> direct, dns |-> dns, ranges |-> ranges, asset |-> asset]
MCPolicies ==
  {[mode |-> "full_tunnel", direct |-> {}, dns |-> {}, ranges |-> {}, asset |-> FALSE],
   Policy({"site"}, {}, {}, FALSE), Policy({"site", "geo"}, {"site", "geo"}, {"office"}, TRUE),
   Policy({"ru"}, {"site"}, {"private"}, FALSE)}

User(type, value, action) == [type |-> type, value |-> value, action |-> action]
MCRuleSets ==
  {{}, {User("domain", "site", "proxy"), User("exe", "app", "block")},
   {User("domain", "2ip.ru", "direct"), User("exe", "app", "direct")},
   {User("domain", "other", "direct"), User("exe", "app", "proxy")},
   {User("domain", "ru", "block")}}

\* what the theorems ask of the profiles
ASSUME \A c \in MCProfiles :
         TagsMeanIt(c) /\ OnlyDnsToDns(c) /\ OwnRulesLead(c) /\ ApiLeads(c) /\ RulesAreClosed(c)
=============================================================================
