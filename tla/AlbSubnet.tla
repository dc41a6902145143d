------------------------------- MODULE AlbSubnet -------------------------------
(***************************************************************************)
(* GetAdditionalVpcSubnet (common/aws.go): the second subnet of the load   *)
(* balancer, which has to be in another availability zone and should share *)
(* the route table of the first.  The subnets and the route tables of the  *)
(* VPC are read page by page; a route table lists its associations, each   *)
(* of a subnet, but for the one that marks the main table of the VPC,      *)
(* which serves every subnet without an association.                       *)
(***************************************************************************)
EXTENDS Naturals, Sequences, FiniteSets, FiniteSetsExt, SequencesExt

CONSTANTS Subnet, Zone, Table, None

NoAdditionalSubnet == "NoAdditionalSubnet"  \* the error of that name

ASSUME SubnetAssumption == IsFiniteSet(Subnet)
ASSUME NoneAssumption ==
    /\ None # NoAdditionalSubnet
    /\ {None, NoAdditionalSubnet} \intersect (Subnet \union Table) = {}

VARIABLES
    zone,           \* of a subnet
    associations,   \* those of all tables, in the order AWS lists them
    subnetId,       \* the subnet of the backends
    subnets,        \* the subnets read so far
    tables,         \* how many associations have been read
    routeMap,       \* the table found for a subnet
    answer          \* the subnet returned, or NoAdditionalSubnet

vpcVars == <<zone, associations, subnetId>>
subnetVars == <<vpcVars, subnets, tables, routeMap, answer>>

Association(t, s) == [table |-> t, subnet |-> s]

(* Tables are listed one after the other; a subnet has one association at  *)
(* most, and the VPC one main table.                                       *)
Listings ==
    {l \in UNION {[1 .. n -> {Association(t, s) : t \in Table, s \in Subnet \union {None}}] :
                     n \in 1 .. Cardinality(Subnet) + 1} :
        /\ IsInjective([i \in DOMAIN l |-> l[i].subnet])
        /\ \E i \in DOMAIN l : l[i].subnet = None
        /\ \A i, j, k \in DOMAIN l :
              i < j /\ j < k /\ l[i].table = l[k].table => l[j].table = l[i].table}

SubnetInit ==
    /\ zone \in [Subnet -> Zone]
    /\ associations \in Listings
    /\ subnetId \in Subnet
    /\ subnets = {}
    /\ tables = 0
    /\ routeMap = [s \in {} |-> None]
    /\ answer = None

(* A page of GetVpcSubnets, until there is no next token. *)
GetVpcSubnets ==
    /\ subnets # Subnet
    /\ \E page \in SUBSET (Subnet \ subnets) : page # {} /\ subnets' = subnets \union page
    /\ UNCHANGED <<vpcVars, tables, routeMap, answer>>

(* A page of GetRouteTables. *)
GetRouteTables ==
    /\ subnets = Subnet
    /\ tables < Len(associations)
    /\ tables' \in tables + 1 .. Len(associations)
    /\ UNCHANGED <<vpcVars, subnets, routeMap, answer>>

(* Variant: the zones are not compared.                                    *)
filterOutNothing == subnets

(* The requested subnet and those of other zones. *)
filterOutSameAvailabilityZoneAdditionalSubnets ==
    {s \in subnets : s = subnetId \/ zone[s] # zone[subnetId]}

(***************************************************************************)
(* The loop over the tables stops at the association of the subnet.  What  *)
(* the map keeps after it is the main table, if the loop came across it,   *)
(* and otherwise nothing: the table found is overwritten.                  *)
(***************************************************************************)
Seen(s) ==
    LET own == {i \in 1 .. tables : associations[i].subnet = s}
    IN  1 .. (IF own = {} THEN tables ELSE Min(own))

RouteFound(s) ==
    LET mains == {i \in Seen(s) : associations[i].subnet = None}
    IN  IF mains = {} THEN None ELSE associations[Max(mains)].table

getSubnetsRouteMap ==
    /\ tables = Len(associations)
    /\ DOMAIN routeMap = {}
    /\ routeMap' = [s \in filterOutSameAvailabilityZoneAdditionalSubnets |-> RouteFound(s)]
    /\ UNCHANGED <<vpcVars, subnets, tables, answer>>

(* Variant: a subnet without a route in the map matches nothing.           *)
MatchesFound ==
    {s \in DOMAIN routeMap \ {subnetId} : routeMap[s] = routeMap[subnetId] /\ routeMap[s] # None}

(* The first match in the order of a Go map, which is any. *)
Matches == {s \in DOMAIN routeMap \ {subnetId} : routeMap[s] = routeMap[subnetId]}

GetAdditionalVpcSubnet ==
    /\ DOMAIN routeMap # {}
    /\ answer = None
    /\ IF Matches = {} THEN answer' = NoAdditionalSubnet ELSE answer' \in Matches
    /\ UNCHANGED <<vpcVars, subnets, tables, routeMap>>

SubnetNext ==
    \/ GetVpcSubnets
    \/ GetRouteTables
    \/ getSubnetsRouteMap
    \/ GetAdditionalVpcSubnet

SubnetSpec == SubnetInit /\ [][SubnetNext]_subnetVars

-----------------------------------------------------------------------------
(***************************************************************************)
(* Properties                                                              *)
(***************************************************************************)

(* The table that routes for a subnet: its own, or the main one. *)
IndexOf(s) == {i \in DOMAIN associations : associations[i].subnet = s}
RouteTable(s) ==
    LET i == CHOOSE i \in IndexOf(IF IndexOf(s) = {} THEN None ELSE s) : TRUE
    IN  associations[i].table

(* A load balancer needs two zones: the answer is in another one.          *)
OtherZone ==
    answer \notin {None, NoAdditionalSubnet} =>
        answer \in Subnet /\ zone[answer] # zone[subnetId]

(***************************************************************************)
(* A subnet of another zone that shares the route table is not missed: the *)
(* import is refused only when there is none, if the main table is listed  *)
(* with its main association before those of subnets.                      *)
(***************************************************************************)
MainFirst ==
    \A i \in IndexOf(None), j \in DOMAIN associations :
        associations[i].table = associations[j].table => i <= j

RefusedOnlyWithoutSharer ==
    MainFirst /\ answer = NoAdditionalSubnet =>
        \A s \in Subnet : zone[s] = zone[subnetId] \/ RouteTable(s) # RouteTable(subnetId)

=============================================================================
