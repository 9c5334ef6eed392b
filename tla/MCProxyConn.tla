---------------------------- MODULE MCProxyConn ----------------------------
(* Values for TLC: one connection, an address and a name as its destinations, *)
(* four lists of rules, one client that the rules for the lan cover.           *)
EXTENDS ProxyConn

Rule(a, k, p) == [action |-> a, kind |-> k, pattern |-> p]
DenyName  == Rule("deny", "domain", "name")
AllowAddr == Rule("allow", "domain", "addr")
AllowLan  == Rule("allow", "ip", "lan")
AllowWan  == Rule("allow", "ip", "wan")
MCRuleSets == {<<>>, <<AllowLan, DenyName>>, <<AllowAddr, AllowWan>>, <<AllowLan, AllowAddr>>}
MCHosts    == {"addr", "name"}
MCNames    == {"name"}
MCClientIP == [c \in Conns |-> "ip"]
MCCovers   == [p \in {"name", "addr", "lan", "wan"} |-> IF p = "lan" THEN {"ip"} ELSE {p}]
MCCredSets == {{}, {"user"}}
=============================================================================
