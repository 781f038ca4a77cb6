----------------------------- MODULE MCAdmission -----------------------------
(* What a connection depends on before it is admitted, one part in each         *)
(* behaviour: the resolver, the address registry, and the masks and connection      *)
(* rules of the configuration.                                                  *)
EXTENDS Resolver, IPcheck, Masks, Rules, TLC

CONSTANTS client1, client2, addr1, addr2

VARIABLE part

\* The resolver with three callers, one of each kind, and few ids.
MCKind == [c \in Contexts |-> CASE ToString(c) = "conf1" -> "conf"
                                [] ToString(c) = "auth4" -> "auth4"
                                [] OTHER -> "auth6"]

\* The record sequences whose records proc_answer tells apart.
MCAnswers ==
  {<<>>, <<"A">>, <<"AAAA">>, <<"PTR">>, <<"BROKEN">>, <<"CNAME">>,
   <<"CNAME", "A">>, <<"CNAME", "PTR">>, <<"CNAME", "OTHER">>}

ClientSymmetry == Permutations(Clients)

ExemptionsChange == {{}, {addr1}}

MCLetters == {"a", "B"}

One(kind, name, from, oper) == [kind |-> kind, name |-> name, from |-> from, oper |-> oper]

\* Nobody; a server behind another; a neighbour and an operator; this server has the name.
MCWorlds ==
  {{One("me", "h", "h", FALSE)},
   {One("me", "h", "h", FALSE), One("server", "y", "y", FALSE), One("server", "x", "y", FALSE),
    One("user", "u", "y", TRUE)},
   {One("me", "h", "h", FALSE), One("server", "x", "x", FALSE), One("user", "u", "u", TRUE)},
   {One("me", "x", "x", FALSE), One("server", "y", "y", FALSE), One("user", "u", "u", TRUE)}}

MCParts == {"resolver", "registry", "masks", "rules"}

MCInit ==
  /\ part \in MCParts
  /\ ResolverInit /\ Init /\ MaskInit /\ RuleInit
  /\ part # "registry" => exempt = {}

MCNext ==
  /\ UNCHANGED part
  /\ \/ part = "resolver" /\ ResolverNext /\ UNCHANGED <<vars, mask, rule>>
     \/ part = "registry" /\ Next /\ UNCHANGED <<resolverVars, mask, rule>>
     \/ part = "masks" /\ MaskNext /\ UNCHANGED <<resolverVars, vars, rule>>
     \/ part = "rules" /\ RuleNext /\ UNCHANGED <<resolverVars, vars, mask>>

MCVars == <<part, resolverVars, vars, mask, rule>>

MCSpec == MCInit /\ [][MCNext]_MCVars
=============================================================================
