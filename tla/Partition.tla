------------------------------ MODULE Partition ------------------------------
(***************************************************************************)
(* Network partitions: the iptables commands that the partition actions of *)
(* faultstorm/faults/actions.py issue through faults/partitioners.py, one  *)
(* at a time, and what they leave in the firewalls of the nodes.           *)
(*                                                                         *)
(* execute() and heal() are plans, sequences of parts; a part is what they *)
(* do to one chain, a sequence of commands.  A command fails when iptables *)
(* refuses it, and may fail spuriously: docker exec reports an error or a  *)
(* timeout, and the command has or has not been executed.  Every helper of *)
(* partitioners.py swallows the exception and gives up the rest of its own *)
(* commands, which is why a command that fails takes a number of its       *)
(* followers with it; a failing lookup of an address ends the whole plan.  *)
(*                                                                         *)
(* The engine runs one plan at a time, in any order a scenario may give;   *)
(* it starts afresh, with ordinal 1, in every test run, while the nodes    *)
(* and their firewalls stay.                                               *)
(***************************************************************************)
EXTENDS Naturals, Sequences, FiniteSets, SequencesExt

CONSTANTS
  DbNodes,      \* config.db_nodes, a sequence
  ExtraNodes,   \* config.extra_nodes, a sequence
  DcMap,        \* the nodes of each datacenter, sequences
  Kinds,        \* the partition classes in use
  MaxActive,    \* bound on the partitions in force at a time (the code has none)
  MaxOrdinal,   \* bound on the actions of a run (the code has none)
  MaxRuns,      \* bound on the test runs (the code has none)
  MaxFailures   \* bound on the spurious failures (the code has none)

AllNodes == DbNodes \o ExtraNodes
Nodes    == ToSet(AllNodes)

Hooks  == {"INPUT", "OUTPUT"}
Match  == [INPUT |-> "src", OUTPUT |-> "dst"]  \* what a rule must match there

ASSUME ConstantsAssumption ==
  /\ DbNodes \in Seq(Nodes) /\ ExtraNodes \in Seq(Nodes)
  /\ Cardinality(Nodes) = Len(AllNodes)
  /\ \A dc \in DOMAIN DcMap : DcMap[dc] \in Seq(Nodes)
  /\ Kinds \subseteq {"halves", "ring", "node", "subnet", "dc"}
  /\ {MaxActive, MaxOrdinal, MaxFailures} \subseteq Nat
  /\ MaxRuns \in Nat \ {0}

\* FSTORM_PART_<n>, FSTORM_PART_<n>_IN and FSTORM_PART_<n>_OUT.
ChainName(n) == [id |-> n, suffix |-> ""]
DirectionalChainName(n, hook) ==
  [id |-> n, suffix |-> IF hook = "INPUT" THEN "IN" ELSE "OUT"]
Chains  == [id : 1 .. MaxOrdinal, suffix : {"", "IN", "OUT"}]
NoChain == [id |-> 0, suffix |-> ""]

\* At node "at", packets that pass "hook" and come from, or go to, "peer".
Block(at, hook, peer) == [at |-> at, hook |-> hook, peer |-> peer]
Blocks == [at : Nodes, hook : Hooks, peer : Nodes]

VARIABLES
  (* the engine *)
  run,        \* the test run
  ordinal,    \* the last ordinal given to an action of this run
  phase,      \* "idle", or running the plan of an execute() or a heal()
  plan,       \* the parts still to be done, as the commands still to be issued
  current,    \* the action whose plan it is
  active,     \* the partitions executed and not yet healed
  (* the firewalls, as sets of triples and the like over all nodes *)
  chains,     \* the custom chains there are
  links,      \* the rules of INPUT and OUTPUT that jump to them
  rules,      \* the DROP rules in them
  (* history *)
  failures,   \* spurious failures so far
  runFailures,\* of these, in the present run
  unflushed   \* what was left in place by a heal that failed to flush a chain

engineVars == <<run, ordinal, phase, plan, current, active>>
firewall   == <<chains, links, rules>>
history    == <<failures, runFailures, unflushed>>
vars == <<engineVars, firewall, history>>

Command == [op : {"create", "link", "drop", "flush", "unlink", "delete", "lookup"},
            at : Nodes \cup {"runner"}, chain : Chains \cup {NoChain},
            hook : Hooks \cup {"-"}, peer : Nodes \cup {"-"}]
Action  == [ordinal : 1 .. MaxOrdinal, kind : Kinds, hooks : {<<>>, <<"INPUT">>, <<"OUTPUT">>,
            <<"INPUT", "OUTPUT">>}, node : Nodes \cup {"-"}, design : SUBSET Blocks]

TypeOK ==
  /\ run \in 1 .. MaxRuns
  /\ ordinal \in 0 .. MaxOrdinal
  /\ phase \in {"idle", "execute", "heal"}
  /\ plan \in Seq(Seq(Command))
  /\ current \subseteq Action
  /\ active \subseteq Action
  /\ chains \subseteq Nodes \X Chains
  /\ links \subseteq Nodes \X Hooks \X Chains
  /\ rules \subseteq Nodes \X Chains \X {"src", "dst"} \X Nodes
  /\ failures \in 0 .. MaxFailures
  /\ runFailures \in 0 .. failures
  /\ unflushed \subseteq Blocks

Init ==
  /\ run = 1
  /\ ordinal = 0
  /\ phase = "idle"
  /\ plan = <<>>
  /\ current = {}
  /\ active = {}
  /\ chains = {}
  /\ links = {}
  /\ rules = {}
  /\ failures = 0
  /\ runFailures = 0
  /\ unflushed = {}

-----------------------------------------------------------------------------
(* partitioners.py: the commands of each helper.                           *)

Cmd(op, at, chain, hook, peer) ==
  [op |-> op, at |-> at, chain |-> chain, hook |-> hook, peer |-> peer]

CreateChainForDirection(node, chain, hook) ==
  <<Cmd("create", node, chain, "-", "-"), Cmd("link", node, chain, hook, "-")>>

\* The rules match by source in a chain of INPUT, by destination in one of OUTPUT.
AddDropRules(node, chain, hook, peers) ==
  [i \in DOMAIN peers |-> Cmd("drop", node, chain, hook, peers[i])]

RemoveChainForDirection(node, chain, hook) ==
  <<Cmd("flush", node, chain, "-", "-"), Cmd("unlink", node, chain, hook, "-"),
    Cmd("delete", node, chain, "-", "-")>>

\* Faulty variant of HealPartition: the extra nodes are forgotten.
HealPartitionDbOnly(n) ==
  [i \in DOMAIN DbNodes |-> RemoveChainForDirection(DbNodes[i], ChainName(n), "INPUT")]

\* The chain is removed from all nodes, whatever the class.
HealPartition(n) ==
  [i \in DOMAIN AllNodes |-> RemoveChainForDirection(AllNodes[i], ChainName(n), "INPUT")]

HealDirectionalPartition(n, node, hooks) ==
  [i \in DOMAIN hooks |->
     RemoveChainForDirection(node, DirectionalChainName(n, hooks[i]), hooks[i])]

\* create_chain and add_drop_rules_by_src, which always go together.
Install(n, node, peers) ==
  CreateChainForDirection(node, ChainName(n), "INPUT")
    \o AddDropRules(node, ChainName(n), "INPUT", peers)

\* get_node_ip of each of the nodes; the first that raises ends the plan.
GetNodeIps(nodes) ==
  IF nodes = <<>> THEN <<>> ELSE <<Cmd("lookup", "runner", NoChain, "-", "-")>>

\* Commands that are a part of their own.
Part(commands) == IF commands = <<>> THEN <<>> ELSE <<commands>>

-----------------------------------------------------------------------------
(* actions.py: the plans of execute(), and what each partition is to block.*)

\* The other nodes of a list.  Their order is the order of the rules in a
\* chain and of the chains' making; any will do.
Without(seq, S) == SetToSeq(ToSet(seq) \ S)

\* The same for every node of a list.
InstallAll(n, nodes, peers) == [i \in DOMAIN nodes |-> Install(n, nodes[i], peers)]

\* Faulty variant of Separate: only one side drops what comes from the other.
SeparateOneSide(n, left, right) ==
  Part(GetNodeIps(right)) \o InstallAll(n, left, right)

\* Both sides drop what comes from the other one.
Separate(n, left, right) ==
  (Part(GetNodeIps(right)) \o InstallAll(n, left, right))
    \o (Part(GetNodeIps(left)) \o InstallAll(n, right, left))

Separation(S, T) == {Block(x, "INPUT", y) : x \in S, y \in T}
                      \cup {Block(y, "INPUT", x) : x \in S, y \in T}

NewAction(kind, hooks, node, design) ==
  [ordinal |-> ordinal + 1, kind |-> kind, hooks |-> hooks, node |-> node,
   design |-> design]

Begin(action, commands) ==
  /\ phase = "idle"
  /\ action.kind \in Kinds
  /\ ordinal < MaxOrdinal
  /\ Cardinality(active) < MaxActive
  /\ ordinal' = ordinal + 1
  /\ phase' = "execute"
  /\ plan' = commands
  /\ current' = {action}
  /\ UNCHANGED <<run, active, firewall, history>>

\* A shuffled list of nodes, cut in the middle.
ExecuteHalves(nodes) ==
  LET mid == Len(nodes) \div 2
      group1 == SubSeq(nodes, 1, mid)
      group2 == SubSeq(nodes, mid + 1, Len(nodes))
  IN Begin(NewAction("halves", <<>>, "-", Separation(ToSet(group1), ToSet(group2))),
           Separate(ordinal + 1, group1, group2))

\* Faulty variant of Majority: half of the nodes.
MajorityHalf(n) == n \div 2

Majority(n) == (n \div 2) + 1

\* Each node drops what comes from all but the majority that begins with it.
Visible(ordered, i) ==
  {ordered[((i + j - 1) % Len(ordered)) + 1] : j \in 0 .. Majority(Len(ordered)) - 1}

RingDesign(ordered) ==
  LET n == Len(ordered)
  IN {Block(ordered[p[1]], "INPUT", ordered[p[2]]) :
        p \in {q \in (1 .. n) \X (1 .. n) : (q[2] + n - q[1]) % n >= Majority(n)}}

ExecuteRing(ordered) ==
  LET Blocked(i) == Without(ordered, Visible(ordered, i))
  IN Begin(NewAction("ring", <<>>, "-", RingDesign(ordered)),
           [i \in DOMAIN ordered |->
              GetNodeIps(Blocked(i)) \o Install(ordinal + 1, ordered[i], Blocked(i))])

ExecuteNode(node) ==
  Begin(NewAction("node", <<>>, "-", Separation({node}, Nodes \ {node})),
        Separate(ordinal + 1, <<node>>, Without(AllNodes, {node})))

\* The nodes of a datacenter; nothing happens if it has none.
ExecuteDc(dc) ==
  LET nodes == DcMap[dc]
  IN Begin(NewAction("dc", <<>>, "-", Separation(ToSet(nodes), Nodes \ ToSet(nodes))),
           IF nodes = <<>> THEN <<>>
           ELSE Separate(ordinal + 1, nodes, Without(AllNodes, ToSet(nodes))))

\* Faulty variant of BlockedNodes: the load generator is looked up as a node.
BlockedNodesAndRunner(node, subnet) ==
  IF subnet = "zk" THEN ExtraNodes ELSE Append(Without(DbNodes, {node}), "runner")

\* _resolve_blocked_nodes
BlockedNodes(node, subnet) ==
  CASE subnet = "zk"  -> ExtraNodes
    [] subnet = "db"  -> Without(DbNodes, {node})
    [] subnet = "all" -> ExtraNodes \o Without(DbNodes, {node})

\* _get_iptables_directions
IptablesDirections(direction) ==
  CASE direction = "input"  -> <<"INPUT">>
    [] direction = "output" -> <<"OUTPUT">>
    [] direction = "both"   -> <<"INPUT", "OUTPUT">>

\* Only the chosen node is filtered, for each direction in a chain of its own.
ExecuteSubnet(node, direction, subnet) ==
  LET peers == BlockedNodes(node, subnet)
      hooks == IptablesDirections(direction)
  IN Begin(NewAction("subnet", hooks, node,
                     {Block(node, h, p) : h \in ToSet(hooks), p \in ToSet(peers)}),
           Part(GetNodeIps(peers)) \o [i \in DOMAIN hooks |->
              LET chain == DirectionalChainName(ordinal + 1, hooks[i])
              IN CreateChainForDirection(node, chain, hooks[i])
                   \o AddDropRules(node, chain, hooks[i], peers)])

Execute ==
  \/ \E order \in SetToSeqs(Nodes) : ExecuteHalves(order) \/ ExecuteRing(order)
  \/ \E node \in Nodes : ExecuteNode(node)
  \/ \E dc \in DOMAIN DcMap : ExecuteDc(dc)
  \/ \E node \in ToSet(DbNodes), direction \in {"input", "output", "both"},
        subnet \in {"zk", "db", "all"} : ExecuteSubnet(node, direction, subnet)

\* heal() of the four classes that cut nodes apart, and of the subnet class.
HealPlan(action) ==
  IF action.hooks = <<>>
  THEN HealPartition(action.ordinal)
  ELSE HealDirectionalPartition(action.ordinal, action.node, action.hooks)

Heal(action) ==
  /\ phase = "idle"
  /\ action \in active
  /\ phase' = "heal"
  /\ plan' = HealPlan(action)
  /\ current' = {action}
  /\ active' = active \ {action}
  /\ UNCHANGED <<run, ordinal, firewall, history>>

-----------------------------------------------------------------------------
(* exec_on_node, and iptables.                                             *)

\* iptables accepts the command.
Accepts(c) ==
  CASE c.op = "create" -> <<c.at, c.chain>> \notin chains
    [] c.op \in {"link", "drop", "flush"} -> <<c.at, c.chain>> \in chains
    [] c.op = "unlink" -> <<c.at, c.hook, c.chain>> \in links
    [] c.op = "delete" -> /\ <<c.at, c.chain>> \in chains
                          /\ \A h \in Hooks : <<c.at, h, c.chain>> \notin links
                          /\ ~\E r \in rules : r[1] = c.at /\ r[2] = c.chain
    [] OTHER -> TRUE

\* What the command does to the firewall of its node.
Perform(c) ==
  /\ chains' = CASE c.op = "create" -> chains \cup {<<c.at, c.chain>>}
                 [] c.op = "delete" -> chains \ {<<c.at, c.chain>>}
                 [] OTHER -> chains
  /\ links'  = CASE c.op = "link"   -> links \cup {<<c.at, c.hook, c.chain>>}
                 [] c.op = "unlink" -> links \ {<<c.at, c.hook, c.chain>>}
                 [] OTHER -> links
  /\ rules'  = CASE c.op = "drop"   -> rules \cup {<<c.at, c.chain, Match[c.hook], c.peer>>}
                 [] c.op = "flush"  -> {r \in rules : r[1] # c.at \/ r[2] # c.chain}
                 [] OTHER -> rules

NextCommand == Head(Head(plan))

\* What is left of the plan when the next k commands of the part are out.
Rest(k) ==
  LET part == Head(plan)
  IN Part(SubSeq(part, k + 1, Len(part))) \o Tail(plan)

\* How many commands a helper gives up when one of its commands raises.
GivesUp(c) ==
  CASE c.op = "create" -> 1                  \* the link
    [] c.op = "flush"  -> 2                  \* unlink and delete
    [] c.op = "unlink" -> 1                  \* delete
    [] OTHER -> 0

Succeed ==
  /\ plan # <<>>
  /\ Accepts(NextCommand)
  /\ Perform(NextCommand)
  /\ plan' = Rest(1)
  /\ UNCHANGED <<run, ordinal, phase, current, active, history>>

\* get_node_ip is called outside any try: its exception ends execute().
GoOn == plan' = IF NextCommand.op = "lookup" THEN <<>> ELSE Rest(1 + GivesUp(NextCommand))

\* iptables refuses the command.
Refused ==
  /\ plan # <<>>
  /\ ~Accepts(NextCommand)
  /\ GoOn
  /\ UNCHANGED <<run, ordinal, phase, current, active, firewall, history>>

\* docker exec or docker inspect fails or times out, before or after the
\* command is executed.
FailSpuriously ==
  /\ plan # <<>>
  /\ failures < MaxFailures
  /\ failures' = failures + 1
  /\ runFailures' = runFailures + 1
  /\ \/ /\ Accepts(NextCommand)
        /\ Perform(NextCommand)
        /\ UNCHANGED unflushed
     \/ /\ UNCHANGED firewall
        /\ unflushed' =
             IF NextCommand.op = "flush"
             THEN unflushed \cup {b \in UNION {a.design : a \in current} : b.at = NextCommand.at}
             ELSE unflushed
  /\ GoOn
  /\ UNCHANGED <<run, ordinal, phase, current, active>>

\* An action is tracked also when its execute() has raised.
Finish ==
  /\ phase # "idle"
  /\ plan = <<>>
  /\ active' = IF phase = "execute" THEN active \cup current ELSE active
  /\ phase' = "idle"
  /\ current' = {}
  /\ UNCHANGED <<run, ordinal, plan, firewall, history>>

\* Everything has been healed, the test run is over; the next one begins.
NewRun ==
  /\ phase = "idle"
  /\ active = {}
  /\ ordinal > 0
  /\ run < MaxRuns
  /\ run' = run + 1
  /\ ordinal' = 0
  /\ runFailures' = 0
  /\ UNCHANGED <<phase, plan, current, active, firewall, failures, unflushed>>

Terminated ==
  /\ phase = "idle"
  /\ active = {}
  /\ run = MaxRuns
  /\ UNCHANGED vars

Next ==
  \/ Execute
  \/ \E action \in active : Heal(action)
  \/ Succeed
  \/ Refused
  \/ FailSpuriously
  \/ Finish
  \/ NewRun
  \/ Terminated

Spec == Init /\ [][Next]_vars

-----------------------------------------------------------------------------
(* What partitions promise.                                                *)

\* The traffic the firewalls drop.
BlockedTraffic ==
  {b \in Blocks : \E c \in Chains : /\ <<b.at, b.hook, c>> \in links
                                    /\ <<b.at, c, Match[b.hook], b.peer>> \in rules}

Designed(actions) == UNION {a.design : a \in actions}

\* Whatever fails, no traffic is ever dropped that no partition in force, or in
\* the making, is to drop, but for what a heal failed to flush: in particular a
\* heal whose flushes succeed opens all that its partition has closed, however
\* far its execute() came (remove_chain flushes before it unlinks).
NothingStray ==
  BlockedTraffic \subseteq Designed(active \cup current) \cup unflushed

\* As long as nothing has failed, the firewalls drop exactly what the
\* partitions in force are to drop, overlapping ones included, and hold no chain
\* of a partition that has been healed (execute and heal of the five classes).
ExactWhileClean ==
  failures = 0 /\ phase = "idle" =>
    /\ BlockedTraffic = Designed(active)
    /\ \A c \in chains : \E a \in active : c[2].id = a.ordinal

\* The nodes whose packets reach x.
Seen(x) == {y \in Nodes : Block(x, "INPUT", y) \notin BlockedTraffic}

LoneRing == /\ failures = 0
            /\ phase = "idle"
            /\ Cardinality(active) = 1
            /\ \A a \in active : a.kind = "ring"

\* Under a ring every node receives packets from a majority, and no two nodes
\* from the same one (README.md: "Each node sees a majority but groups differ").
RingViews ==
  LoneRing /\ Cardinality(Nodes) > 2 =>
    \A x, y \in Nodes : /\ 2 * Cardinality(Seen(x)) > Cardinality(Nodes)
                        /\ Seen(x) = Seen(y) => x = y

\* In a test run without failures every partition in force is in effect
\* (PartitionRandomNodeAction: "Isolate a single random node from all others").
InEffectInCleanRun ==
  runFailures = 0 /\ phase = "idle" => Designed(active) \subseteq BlockedTraffic
=============================================================================
