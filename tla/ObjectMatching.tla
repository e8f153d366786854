--------------------------- MODULE ObjectMatching ---------------------------
(***************************************************************************)
(* How the mapping finds the SD-WAN objects a canonical entity stands for, *)
(* and what it asks the controller to create when there is none.           *)
(*                                                                         *)
(* An entity is [id, side, kind, name, value] and an object of the catalog *)
(* [id, side, type, name, value], side being "zone", "addr" or "service".  *)
(* An address is a number of AddressBits bits.  The value of an entity     *)
(* holds its fields in the order of the model, <<>> when the import left   *)
(* them out; the value of an object is what the catalog index files it by. *)
(***************************************************************************)
EXTENDS Integers, FiniteSets, Sequences

CONSTANTS
  AddressBits,
  NormalName,   \* name or FQDN -> its normal form
  IcmpMessages  \* the ICMP messages SD-WAN knows: [type, code, name]

AnyNames == {"any", "all"}
ANY == -1       \* an ICMP code left out

\* Every ICMP message has a name of its own.
ASSUME MatchingAssumption ==
  /\ AddressBits \in Nat
  /\ \A m \in IcmpMessages : m.type \in Nat
  /\ \A m, n \in IcmpMessages : m.name = n.name => m = n

\* 2^n.
power[n \in 0 .. AddressBits] == IF n = 0 THEN 1 ELSE 2 * power[n - 1]
Addresses == 0 .. power[AddressBits] - 1

masked(addr, len) == addr - (addr % power[AddressBits - len])
addr_value(addr, len) == <<"prefix", masked(addr, len), len>>

\* What an import writes as an entity: an address with the length of its mask, a range of
\* addresses or ports that goes up, an ICMP type and code.
is_entity(e) ==
  /\ e.side = "addr" <=> e.kind \in {"HOST", "SUBNET", "RANGE", "FQDN", "ANY_ADDR",
                                     "UNRESOLVED_ADDR", "ADDR_GROUP"}
  /\ e.side = "service" <=> e.kind \in {"TCP", "UDP", "ICMP", "IP_PROTO", "ANY_SERVICE",
                                        "SERVICE_GROUP"}
  /\ e.value # <<>> =>
       CASE e.kind \in {"HOST", "SUBNET"}       -> e.value \in Addresses \X (0 .. AddressBits)
         [] e.kind \in {"RANGE", "TCP", "UDP"} -> e.value \in Nat \X Nat /\ e.value[1] <= e.value[2]
         [] OTHER                              -> TRUE

\* What the catalog may hold: networks without host bits, and codes for ICMP only and always.
is_object(o) ==
  CASE o.side = "addr" ->
         (CASE o.type = "HOST"     -> o.value \in {"host"} \X Addresses
            [] o.type = "IP_RANGE" -> o.value \in {"range"} \X Nat \X Nat
            [] o.type = "FQDN"     -> o.value[1] = "fqdn"
            [] o.type \in {"PREFIX", "NETWORK"} ->
                 \E addr \in Addresses, len \in 0 .. AddressBits : o.value = addr_value(addr, len)
            [] OTHER -> o.value[1] \notin {"host", "range", "fqdn", "prefix"})
    [] o.side = "service" ->
         /\ o.value = <<o.type, o.value[2], o.value[3]>>
         /\ o.value[2] \subseteq Nat \X Nat /\ IsFiniteSet(o.value[2])
         /\ o.type = "ICMP" <=> o.value[3] # {}
    [] OTHER -> TRUE

----------------------------------------------------------------------------
(* What an entity is looked up by: the matchers of the three sides.         *)

Nothing == <<>>

subnet_value(e) == IF e.value = <<>> THEN Nothing ELSE addr_value(e.value[1], e.value[2])

host_value(e) == IF e.value = <<>> THEN Nothing ELSE <<"host", e.value[1]>>

addr_lookup(e) ==
  CASE e.kind = "HOST"   -> host_value(e)
    [] e.kind = "SUBNET" -> subnet_value(e)
    [] e.kind = "RANGE"  -> IF e.value = <<>> THEN Nothing ELSE <<"range">> \o e.value
    [] e.kind = "FQDN"   -> IF e.value = <<>> THEN Nothing ELSE <<"fqdn", NormalName[e.value[1]]>>
    [] OTHER             -> Nothing   \* UNRESOLVED_ADDR, ADDR_GROUP

\* A type without a code stands for all the messages of the type.
icmp_codes(e) ==
  IF e.value = <<>> THEN {}
  ELSE {m.name : m \in {n \in IcmpMessages : /\ n.type = e.value[1]
                                             /\ e.value[2] \in {ANY, n.code}}}

icmp_lookup(e) == IF icmp_codes(e) = {} THEN Nothing ELSE <<"ICMP", {}, icmp_codes(e)>>

\* Mutant of l4_lookup: a service is told by its first port.
l4_lookup_first(e) ==
  IF e.value = <<>> THEN Nothing ELSE <<e.kind, {<<e.value[1], e.value[1]>>}, {}>>

\* The signature: the protocol, exactly one range of ports and no codes.
l4_lookup(e) == IF e.value = <<>> THEN Nothing ELSE <<e.kind, {e.value}, {}>>

service_lookup(e) ==
  CASE e.kind \in {"TCP", "UDP"} -> l4_lookup(e)
    [] e.kind = "ICMP"           -> icmp_lookup(e)
    [] OTHER                     -> Nothing   \* IP_PROTO, SERVICE_GROUP

----------------------------------------------------------------------------
(* What an object of the catalog is filed under.                            *)

\* An ICMP service is found by its codes alone, a NETWORK as a prefix, and a group only
\* by its name.
filed_value(o) ==
  CASE o.side = "service" /\ o.value[1] = "ICMP" -> <<"ICMP", {}, o.value[3]>>
    [] o.side = "addr" /\ o.type = "FQDN"        -> <<"fqdn", NormalName[o.value[2]]>>
    [] OTHER                                     -> o.value

has_any_name(o) == NormalName[o.name] \in AnyNames

matches(e, o) ==
  /\ o.side = e.side
  /\ CASE e.side = "zone"        -> NormalName[o.name] = NormalName[e.name]
       [] e.kind = "ANY_ADDR"    -> has_any_name(o) \/ o.value = addr_value(0, 0)
       [] e.kind = "ANY_SERVICE" -> has_any_name(o)
       [] e.side = "addr"        -> addr_lookup(e) # Nothing /\ filed_value(o) = addr_lookup(e)
       [] OTHER -> service_lookup(e) # Nothing /\ filed_value(o) = service_lookup(e)

\* The candidates of an entity, each id once.  They are ranked by score and id; within one
\* entity every score is the same.
candidates(e, catalog) == {o.id : o \in {c \in catalog : matches(e, c)}}

IsGroup(e) == e.kind \in {"ADDR_GROUP", "SERVICE_GROUP"}

NoObject == 0

resolution(found) ==
  [status |-> IF found = {} THEN "UNRESOLVED"
              ELSE IF Cardinality(found) = 1 THEN "MATCHED" ELSE "AMBIGUOUS",
   selected |-> IF Cardinality(found) = 1 THEN CHOOSE o \in found : TRUE ELSE NoObject,
   candidates |-> found]

\* MappingObjectsService.build_results: a group gets no result of its own.
build_results(entities, catalog) ==
  [i \in {e.id : e \in {x \in entities : ~IsGroup(x)}} |->
     resolution(candidates(CHOOSE e \in entities : e.id = i, catalog))]

----------------------------------------------------------------------------
(* Creation on the controller.                                              *)

\* What there is a payload for; the others, and those without a value, are refused.
creatable(e) ==
  /\ e.kind \in {"HOST", "SUBNET", "FQDN", "RANGE", "TCP", "UDP"}
  /\ e.value # <<>>

\* The payload: a host without its mask, a service with one range of ports.
created_value(e) ==
  CASE e.kind = "HOST"   -> <<"host", e.value[1]>>
    [] e.kind = "SUBNET" -> addr_value(e.value[1], e.value[2])   \* the controller's form of it
    [] e.kind = "RANGE"  -> <<"range", e.value[1], e.value[2]>>
    [] e.kind = "FQDN"   -> <<"fqdn", e.value[1]>>
    [] OTHER             -> <<e.kind, {<<e.value[1], e.value[2]>>}, {}>>

created_type(e) ==
  CASE e.kind = "SUBNET" -> "PREFIX" [] e.kind = "RANGE" -> "IP_RANGE" [] OTHER -> e.kind

\* An address object is named by the controller, a service after its canonical one.
created_object(e, id) ==
  [id |-> id, side |-> e.side, type |-> created_type(e), name |-> e.name,
   value |-> created_value(e)]
=============================================================================
