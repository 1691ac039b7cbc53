--------------------------- MODULE NetworkLatency ---------------------------
(***************************************************************************)
(* faultstorm/network_latency.py: the tc rules that delay the traffic      *)
(* between the nodes for a whole test run, and the freeze that an action   *)
(* puts on some of that traffic while it kills a process.                  *)
(*                                                                         *)
(* A node has at most one root qdisc, with numbered bands; a band may have *)
(* a netem child, which delays what a filter routes to the band by the     *)
(* address it goes to.  What is not routed leaves through band 1, without  *)
(* delay.  Addresses are identified with their nodes.                      *)
(*                                                                         *)
(* tc is external: it refuses commands (an existing root, a missing band)  *)
(* and shows a delay rounded.  Every command goes through docker exec,     *)
(* which may report an error or a timeout although tc did its work.  Each  *)
(* test run has a manager of its own; the rules outlive it, also if its    *)
(* process dies.  All runs are made with the same configuration.           *)
(***************************************************************************)
EXTENDS Naturals, Sequences, FiniteSets

CONSTANTS
  DbNodes,      \* config.db_nodes, a sequence
  ExtraNodes,   \* config.extra_nodes, a sequence
  DcOf,         \* dc_map: the datacenter of each node, or NoDc
  NoDc,
  CrossDelays,  \* config.cross_dc_delays, by set of two datacenters
  DbZkDelay,    \* config.db_zk_delay_ms
  FreezeDelay,  \* _FREEZE_DELAY_MS
  MaxRuns,      \* bound on the managers (the code has none)
  MaxFreezes,   \* bound on the freezes (the code has none)
  MaxFailures   \* bound on the spurious failures (the code has none)

AllNodes == DbNodes \o ExtraNodes
Nodes    == {AllNodes[i] : i \in DOMAIN AllNodes}
DbSet    == {DbNodes[i] : i \in DOMAIN DbNodes}
ExtraSet == {ExtraNodes[i] : i \in DOMAIN ExtraNodes}

ASSUME ConstantsAssumption ==
  /\ DbNodes \in Seq(DbSet) /\ ExtraNodes \in Seq(ExtraSet)
  /\ DbNodes # <<>> /\ DbSet \cap ExtraSet = {}
  /\ CrossDelays \in [DOMAIN CrossDelays -> Nat]
  /\ {DbZkDelay, MaxFreezes, MaxFailures} \subseteq Nat
  /\ {FreezeDelay, MaxRuns} \subseteq Nat \ {0}

-----------------------------------------------------------------------------
(* The delays that apply() computes.                                       *)

CrossDelay(n, m) ==
  IF /\ NoDc \notin {DcOf[n], DcOf[m]}
     /\ DcOf[n] # DcOf[m]
     /\ {DcOf[n], DcOf[m]} \in DOMAIN CrossDelays
  THEN CrossDelays[{DcOf[n], DcOf[m]}]
  ELSE 0

\* Traffic between a database node and an extra node has a delay of its own.
DbToZk(n, m) == n \in DbSet /\ m \in ExtraSet

Delay(n, m) == CrossDelay(n, m) + (IF DbToZk(n, m) \/ DbToZk(m, n) THEN DbZkDelay ELSE 0)

\* dest_delays and its distinct delays, each of which gets a band.
Dests(n)  == {m \in Nodes \ {n} : Delay(n, m) > 0}
Delays(n) == {Delay(n, m) : m \in Dests(n)}

\* The delays have their bands in the order in which the nodes bring them up.
Before(n, d, e) ==
  \E i \in DOMAIN AllNodes :
    /\ AllNodes[i] \in Dests(n)
    /\ Delay(n, AllNodes[i]) = d
    /\ \A j \in 1 .. i : AllNodes[j] \in Dests(n) => Delay(n, AllNodes[j]) # e

BandOf(n, d) == 2 + Cardinality({e \in Delays(n) : Before(n, e, d)})

\* Band 1 is the default; the others carry one delay each.
NumBands(n) == Cardinality(Delays(n)) + 1
Bands       == 1 .. Len(AllNodes) + 1

\* tc shows a delay in whole milliseconds, from a second on in tenths of a
\* second ("99999ms" becomes "100.0s"); _parse_netem_bands reads that.
Shown(d) == IF d < 1000 THEN d ELSE ((d + 50) \div 100) * 100

VARIABLES
  tc,         \* the rules of each node: bands of the root qdisc, 0 if there is
              \* none; delay of each band, 0 if it has no netem child; the band
              \* of the traffic to each node
  (* the manager, in the main thread *)
  mpc,        \* where apply() or remove() is
  at,         \* the node it is at, an index into AllNodes
  band,       \* the band it is at
  todo,       \* addresses without their filter, or nodes to remove rules from
  configured, \* _configured_nodes
  nodeBands,  \* _node_bands
  (* the freeze, in the fault thread *)
  fpc,        \* where it is
  fnode,      \* its node
  targets,    \* its target_ips
  frozen,     \* the delay to restore of each band it freezes
  ftodo,      \* the bands or addresses it still has to deal with
  temp,       \* temp_created
  (* bounds *)
  runs, freezes, failures,
  (* history *)
  residue     \* nodes on which something failed or was cut short

managerVars == <<mpc, at, band, todo, configured, nodeBands>>
freezeVars  == <<fpc, fnode, targets, frozen, ftodo, temp>>
vars == <<tc, managerVars, freezeVars, runs, freezes, failures, residue>>

Applying == {"node", "root", "netem", "filter"}
Node     == AllNodes[at]
BandInfo == [band : Bands, delay : Nat]
Rules    == [root : 0 .. Len(AllNodes) + 1, netem : [Bands -> Nat], route : [Nodes -> Bands]]

\* The delay of what n sends to m.
Effective(n, m) == tc[n].netem[tc[n].route[m]]

TypeOK ==
  /\ DOMAIN tc = Nodes /\ \A n \in Nodes : tc[n] \in Rules
  /\ mpc \in {"new", "applied", "removing", "removed", "raised"} \cup Applying
  /\ at \in 1 .. Len(AllNodes) + 1
  /\ band \in Bands
  /\ todo \subseteq Nodes
  /\ configured \subseteq Nodes
  /\ DOMAIN nodeBands = Nodes
  /\ \A n \in Nodes : /\ DOMAIN nodeBands[n] \subseteq Nodes
                      /\ \A m \in DOMAIN nodeBands[n] : nodeBands[n][m] \in BandInfo
  /\ fpc \in {"idle", "freeze", "temp_root", "temp_netem", "temp_filter", "kill",
              "drop", "restore", "remove_temp", "done"}
  /\ fnode \in Nodes
  /\ targets \subseteq Nodes
  /\ DOMAIN frozen \subseteq Bands /\ \A b \in DOMAIN frozen : frozen[b] \in Nat
  /\ ftodo \subseteq Bands \cup Nodes
  /\ temp \in BOOLEAN
  /\ runs \in 0 .. MaxRuns /\ freezes \in 0 .. MaxFreezes /\ failures \in 0 .. MaxFailures
  /\ residue \subseteq Nodes

\* A root qdisc whose bands have no delay, and no filters.
BareRoot(bands) ==
  [root |-> bands, netem |-> [b \in Bands |-> 0], route |-> [m \in Nodes |-> 1]]

NoRules == BareRoot(0)

NewManager ==
  /\ mpc = "new" /\ at = 1 /\ band = 1 /\ todo = {} /\ configured = {}
  /\ nodeBands = [n \in Nodes |-> <<>>]

Init ==
  /\ tc = [n \in Nodes |-> NoRules]
  /\ NewManager
  /\ fpc = "idle" /\ fnode = AllNodes[1] /\ targets = {} /\ frozen = <<>> /\ ftodo = {}
  /\ temp = FALSE
  /\ runs = 1 /\ freezes = 0 /\ failures = 0
  /\ residue = {}

-----------------------------------------------------------------------------
(* Commands.  tc accepts a command or refuses it; one that it accepts may  *)
(* be reported as failed all the same, with or without its effect.         *)

Exec(n, accepted, rules, ok) ==
  IF ok
  THEN accepted /\ tc' = [tc EXCEPT ![n] = rules] /\ UNCHANGED <<failures, residue>>
  ELSE \/ ~accepted /\ UNCHANGED <<tc, failures, residue>>
       \/ /\ accepted
          /\ failures < MaxFailures
          /\ failures' = failures + 1
          /\ residue' = residue \cup {n}
          /\ tc' \in {tc, [tc EXCEPT ![n] = rules]}

QdiscAddRoot(n, bands, ok) == Exec(n, tc[n].root = 0, BareRoot(bands), ok)

QdiscAddNetem(n, b, d, ok) ==
  Exec(n, b \in 1 .. tc[n].root /\ tc[n].netem[b] = 0, [tc[n] EXCEPT !.netem[b] = d], ok)

QdiscChange(n, b, d, ok) == Exec(n, tc[n].netem[b] > 0, [tc[n] EXCEPT !.netem[b] = d], ok)

QdiscDelNetem(n, b, ok) == Exec(n, tc[n].netem[b] > 0, [tc[n] EXCEPT !.netem[b] = 0], ok)

FilterAdd(n, m, b, ok) == Exec(n, tc[n].root > 0, [tc[n] EXCEPT !.route[m] = b], ok)

\* Deleting the root qdisc takes everything with it.
QdiscDelRoot(n, ok) == Exec(n, tc[n].root > 0, NoRules, ok)

\* _discover_bands_for_ips, if its commands succeed.
Discover(n, T) ==
  [m \in {m \in T : Effective(n, m) > 0}
     |-> [band |-> tc[n].route[m], delay |-> Shown(Effective(n, m))]]

\* A discovery one of whose commands fails finds nothing.
Discovery(n, T, found) ==
  \/ found = Discover(n, T) /\ UNCHANGED <<failures, residue>>
  \/ /\ failures < MaxFailures
     /\ found = <<>>
     /\ failures' = failures + 1
     /\ residue' = residue \cup {n}

Discoveries(n, T) == {Discover(n, T), <<>>}

First(S)  == CHOOSE m \in S : \E i \in DOMAIN AllNodes :
               AllNodes[i] = m /\ \A j \in 1 .. i - 1 : AllNodes[j] \notin S
Lowest(S) == CHOOSE b \in S : \A c \in S : b <= c

-----------------------------------------------------------------------------
(* apply()                                                                 *)

BeginApply ==
  /\ mpc = "new" /\ mpc' = "node"
  /\ UNCHANGED <<tc, at, band, todo, configured, nodeBands, freezeVars, runs, freezes,
                 failures, residue>>

\* The delays of the next node; get_node_ip may raise.
BeginNode ==
  /\ mpc = "node" /\ at <= Len(AllNodes)
  /\ \/ Dests(Node) # {} /\ mpc' = "root" /\ UNCHANGED <<at, failures>>
     \/ Dests(Node) = {} /\ at' = at + 1 /\ UNCHANGED <<mpc, failures>>
     \/ /\ Dests(Node) # {} /\ failures < MaxFailures
        /\ mpc' = "raised" /\ failures' = failures + 1 /\ UNCHANGED at
  /\ UNCHANGED <<tc, band, todo, configured, nodeBands, freezeVars, runs, freezes, residue>>

EndApply ==
  /\ mpc = "node" /\ at > Len(AllNodes) /\ mpc' = "applied"
  /\ UNCHANGED <<tc, at, band, todo, configured, nodeBands, freezeVars, runs, freezes,
                 failures, residue>>

\* Faulty variant of NextNode: the loop advances twice.
NextNodeTwice ==
  /\ configured' = configured \cup {Node}
  /\ mpc' = "node" /\ at' = at + 2 /\ band' = 1

NextNode ==
  /\ configured' = configured \cup {Node}
  /\ mpc' = "node" /\ at' = at + 1 /\ band' = 1

AddRoot ==
  /\ mpc = "root"
  /\ QdiscAddRoot(Node, NumBands(Node), TRUE)
  /\ mpc' = "netem" /\ band' = 2
  /\ UNCHANGED <<at, todo, configured, nodeBands, freezeVars, runs, freezes>>

\* Faulty variant of RecoverBands: the node does not count as configured.
RecoverBandsOnly ==
  /\ mpc = "root" /\ tc[Node].root > 0
  /\ \E found \in Discoveries(Node, Dests(Node)) :
       /\ Discovery(Node, Dests(Node), found)
       /\ nodeBands' = IF found = <<>> THEN nodeBands ELSE [nodeBands EXCEPT ![Node] = found]
  /\ mpc' = "node" /\ at' = at + 1 /\ band' = 1
  /\ UNCHANGED <<tc, todo, configured, freezeVars, runs, freezes>>

\* The root exists already: the bands that are found are taken over.
RecoverBands ==
  /\ mpc = "root" /\ tc[Node].root > 0
  /\ \E found \in Discoveries(Node, Dests(Node)) :
       /\ Discovery(Node, Dests(Node), found)
       /\ nodeBands' = IF found = <<>> THEN nodeBands ELSE [nodeBands EXCEPT ![Node] = found]
  /\ NextNode
  /\ UNCHANGED <<tc, todo, freezeVars, runs, freezes>>

\* The root is said not to have been created, and no band is found.
GiveUpNode ==
  /\ mpc = "root" /\ tc[Node].root = 0
  /\ QdiscAddRoot(Node, NumBands(Node), FALSE)
  /\ NextNode
  /\ UNCHANGED <<todo, nodeBands, freezeVars, runs, freezes>>

BandDelay(n, b) == CHOOSE d \in Delays(n) : BandOf(n, d) = b

InBand(n, b) == {m \in Dests(n) : Delay(n, m) = BandDelay(n, b)}

\* A band without netem gets no filters.
AddNetem ==
  /\ mpc = "netem" /\ band <= NumBands(Node)
  /\ \/ /\ QdiscAddNetem(Node, band, BandDelay(Node, band), TRUE)
        /\ mpc' = "filter" /\ todo' = InBand(Node, band) /\ UNCHANGED band
     \/ /\ QdiscAddNetem(Node, band, BandDelay(Node, band), FALSE)
        /\ band' = band + 1 /\ UNCHANGED <<mpc, todo>>
  /\ UNCHANGED <<at, configured, nodeBands, freezeVars, runs, freezes>>

\* A dictionary with one more entry.
With(dict, key, value) ==
  [k \in DOMAIN dict \cup {key} |-> IF k = key THEN value ELSE dict[k]]

\* _apply_node stores the bands of the node when it returns; until then
\* nobody reads them.
AddFilterTo(m, rest) ==
  /\ \E ok \in BOOLEAN : FilterAdd(Node, m, band, ok)
  /\ nodeBands' = [nodeBands EXCEPT ![Node] =
                     With(@, m, [band |-> band, delay |-> BandDelay(Node, band)])]
  /\ todo' = rest
  /\ IF rest = {} THEN mpc' = "netem" /\ band' = band + 1 ELSE UNCHANGED <<mpc, band>>
  /\ UNCHANGED <<at, configured, freezeVars, runs, freezes>>

\* Faulty variant of AddFilter: a band gets one filter only.
AddFilterOnce == mpc = "filter" /\ AddFilterTo(First(todo), {})

AddFilter == mpc = "filter" /\ AddFilterTo(First(todo), todo \ {First(todo)})

EndNode ==
  /\ mpc = "netem" /\ band > NumBands(Node)
  /\ NextNode
  /\ UNCHANGED <<tc, todo, nodeBands, freezeVars, runs, freezes, failures, residue>>

-----------------------------------------------------------------------------
(* remove()                                                                *)

\* TestRunner removes what apply() has set up; force_all_nodes may be used at
\* any time.
BeginRemove(force) ==
  /\ \/ ~force /\ mpc = "applied" /\ UNCHANGED configured
     \/ force /\ mpc \in {"new", "applied", "raised"} /\ configured' = Nodes
  /\ mpc' = "removing" /\ todo' = configured'
  /\ UNCHANGED <<tc, at, band, nodeBands, freezeVars, runs, freezes, failures, residue>>

\* Nothing remains of what went wrong on a node whose rules are deleted.
RemoveNode ==
  /\ mpc = "removing"
  /\ \E n \in todo :
       /\ \/ /\ tc[n].root > 0
             /\ tc' = [tc EXCEPT ![n] = NoRules]
             /\ residue' = residue \ {n}
             /\ UNCHANGED failures
          \/ QdiscDelRoot(n, FALSE)
       /\ todo' = todo \ {n}
  /\ UNCHANGED <<mpc, at, band, configured, nodeBands, freezeVars, runs, freezes>>

EndRemove ==
  /\ mpc = "removing" /\ todo = {}
  /\ mpc' = "removed" /\ configured' = {} /\ nodeBands' = [n \in Nodes |-> <<>>]
  /\ UNCHANGED <<tc, at, band, todo, freezeVars, runs, freezes, failures, residue>>

-----------------------------------------------------------------------------
(* freeze_drop_restore_for_ips: the function, which asks tc, and the method *)
(* of the manager, which relies on what it has stored.  An action of the    *)
(* fault thread calls them once apply() has returned; remove() does not     *)
(* wait for it.                                                             *)

Freezing  == fpc \notin {"idle", "done"}
Available == at > Len(AllNodes) /\ mpc # "node"   \* apply() has returned

\* The bands to freeze, each with the delay to restore.
FrozenBands(found) ==
  [b \in {found[m].band : m \in DOMAIN found}
     |-> found[CHOOSE m \in DOMAIN found : found[m].band = b].delay]

BeginFreeze(n, T, found, otherwise) ==
  /\ ~Freezing /\ Available /\ freezes < MaxFreezes
  /\ freezes' = freezes + 1
  /\ fnode' = n /\ targets' = T /\ temp' = FALSE
  /\ frozen' = FrozenBands(found) /\ ftodo' = DOMAIN frozen'
  /\ fpc' = IF found = <<>> THEN otherwise ELSE "freeze"
  /\ UNCHANGED <<tc, managerVars, runs>>

FreezeLive(n, T) ==
  \E found \in Discoveries(n, T) :
    Discovery(n, T, found) /\ BeginFreeze(n, T, found, "temp_root")

\* Without stored bands the method kills only.
FreezeStored(n, T) ==
  /\ BeginFreeze(n, T, [m \in T \cap DOMAIN nodeBands[n] |-> nodeBands[n][m]], "kill")
  /\ UNCHANGED <<failures, residue>>

FreezeFirst(b, rest) ==
  /\ fpc = "freeze"
  /\ \E ok \in BOOLEAN : QdiscChange(fnode, b, FreezeDelay, ok)
  /\ ftodo' = rest
  /\ fpc' = IF rest = {} THEN "kill" ELSE fpc
  /\ UNCHANGED <<managerVars, fnode, targets, frozen, temp, runs, freezes>>

\* Faulty variant of FreezeBand: one band is frozen.
FreezeBandOnce == fpc = "freeze" /\ FreezeFirst(Lowest(ftodo), {})

FreezeBand == fpc = "freeze" /\ FreezeFirst(Lowest(ftodo), ftodo \ {Lowest(ftodo)})

TempRoot ==
  /\ fpc = "temp_root"
  /\ \E ok \in BOOLEAN :
       /\ QdiscAddRoot(fnode, 2, ok)
       /\ fpc' = IF ok THEN "temp_netem" ELSE "kill"
  /\ UNCHANGED <<managerVars, fnode, targets, frozen, ftodo, temp, runs, freezes>>

\* Without the delay the root is removed again and nothing is frozen.
TempNetem ==
  /\ fpc = "temp_netem"
  /\ \E ok \in BOOLEAN :
       /\ QdiscAddNetem(fnode, 2, FreezeDelay, ok)
       /\ temp' = ok
       /\ fpc' = IF ok THEN "temp_filter" ELSE "remove_temp"
  /\ ftodo' = targets
  /\ UNCHANGED <<managerVars, fnode, targets, frozen, runs, freezes>>

TempFilter ==
  /\ fpc = "temp_filter"
  /\ \E ok \in BOOLEAN : FilterAdd(fnode, First(ftodo), 2, ok)
  /\ ftodo' = ftodo \ {First(ftodo)}
  /\ fpc' = IF ftodo' = {} THEN "kill" ELSE fpc
  /\ UNCHANGED <<managerVars, fnode, targets, frozen, temp, runs, freezes>>

\* kill_callback returns.
Kill ==
  /\ fpc = "kill"
  /\ fpc' = IF frozen # <<>> THEN "drop" ELSE IF temp THEN "remove_temp" ELSE "done"
  /\ ftodo' = DOMAIN frozen
  /\ UNCHANGED <<tc, managerVars, fnode, targets, frozen, temp, runs, freezes, failures,
                 residue>>

\* kill_callback raises, and nothing is restored.
KillRaises ==
  /\ fpc = "kill"
  /\ fpc' = "idle" /\ frozen' = <<>> /\ temp' = FALSE
  /\ residue' = IF frozen # <<>> \/ temp THEN residue \cup {fnode} ELSE residue
  /\ UNCHANGED <<tc, managerVars, fnode, targets, ftodo, runs, freezes, failures>>

\* _reset_netem_band deletes the band and adds it anew.
DropBand ==
  /\ fpc = "drop" /\ fpc' = "restore"
  /\ \E ok \in BOOLEAN : QdiscDelNetem(fnode, Lowest(ftodo), ok)
  /\ UNCHANGED <<managerVars, fnode, targets, frozen, ftodo, temp, runs, freezes>>

RestoreAs(delay) ==
  /\ fpc = "restore"
  /\ \E ok \in BOOLEAN : QdiscAddNetem(fnode, Lowest(ftodo), delay, ok)
  /\ ftodo' = ftodo \ {Lowest(ftodo)}
  /\ fpc' = IF ftodo' = {} THEN "done" ELSE "drop"
  /\ UNCHANGED <<managerVars, fnode, targets, frozen, temp, runs, freezes>>

\* Faulty variant of RestoreBand: every band gets the delay of one of them.
RestoreBandSame == fpc = "restore" /\ RestoreAs(frozen[Lowest(DOMAIN frozen)])

RestoreBand == fpc = "restore" /\ RestoreAs(frozen[Lowest(ftodo)])

RemoveTemp ==
  /\ fpc = "remove_temp"
  /\ \E ok \in BOOLEAN : QdiscDelRoot(fnode, ok)
  /\ fpc' = IF temp THEN "done" ELSE "kill"
  /\ UNCHANGED <<managerVars, fnode, targets, frozen, ftodo, temp, runs, freezes>>

-----------------------------------------------------------------------------
(* The process ends or dies, and another test run begins.                  *)

Restart ==
  /\ runs < MaxRuns
  /\ runs' = runs + 1
  /\ mpc' = "new" /\ at' = 1 /\ band' = 1 /\ todo' = {} /\ configured' = {}
  /\ nodeBands' = [n \in Nodes |-> <<>>]
  /\ fpc' = "idle" /\ targets' = {} /\ frozen' = <<>> /\ ftodo' = {} /\ temp' = FALSE
  /\ residue' = residue \cup (IF mpc \in {"netem", "filter"} THEN {Node} ELSE {})
                        \cup (IF Freezing THEN {fnode} ELSE {})
  /\ UNCHANGED <<tc, fnode, freezes, failures>>

Apply  == \/ BeginApply \/ BeginNode \/ EndApply \/ AddRoot \/ RecoverBands \/ GiveUpNode
          \/ AddNetem \/ AddFilter \/ EndNode
Remove == (\E force \in BOOLEAN : BeginRemove(force)) \/ RemoveNode \/ EndRemove
FreezeStep == FreezeBand \/ TempRoot \/ TempNetem \/ TempFilter \/ Kill \/ KillRaises
                \/ DropBand \/ RestoreBand \/ RemoveTemp
Freeze == \/ \E n \in Nodes, T \in SUBSET Nodes :
               T # {} /\ n \notin T /\ (FreezeLive(n, T) \/ FreezeStored(n, T))
          \/ FreezeStep

Next == Apply \/ Remove \/ Freeze \/ Restart

Spec == Init /\ [][Next]_vars

-----------------------------------------------------------------------------
(* Properties                                                              *)

Alike(d, e) == d \in {e, Shown(e)}

\* Once apply() has returned, every node on which nothing has failed delays
\* what it sends to each other node by what the configuration says, also if it
\* has taken over the rules of an earlier run, and the manager knows the band
\* of every address: apply, _apply_node and what freezes have restored.
ExactWhileClean ==
  mpc = "applied" =>
    \A n \in Nodes \ residue :
      ~(Freezing /\ n = fnode) =>
        /\ \A m \in Nodes \ {n} : Alike(Effective(n, m), Delay(n, m))
        /\ DOMAIN nodeBands[n] = Dests(n)
        /\ \A m \in Dests(n) : /\ nodeBands[n][m].band = tc[n].route[m]
                               /\ Alike(nodeBands[n][m].delay, Delay(n, m))

\* At any time, also between two commands, in the middle of a removal and with
\* the rules of dead processes: a node on which nothing has failed delays no
\* traffic by what is not configured for it, but for the delay of a freeze while
\* the freeze lasts.  freeze_drop_restore_for_ips and the recovery of rules mix
\* up no bands.
NoForeignDelay ==
  \A n \in Nodes \ residue : \A m \in Nodes :
    \/ Effective(n, m) = 0
    \/ m # n /\ Alike(Effective(n, m), Delay(n, m))
    \/ Freezing /\ n = fnode /\ Alike(Effective(n, m), FreezeDelay)

\* While the callback kills the process, nothing the node sends to a target
\* arrives, if a delay is configured between them or the rules are temporary:
\* freeze_drop_restore_for_ips, on nodes on which nothing has failed and from
\* which remove() has not taken the rules meanwhile.
KillIsolated ==
  fpc = "kill" /\ fnode \notin residue /\ tc[fnode].root > 0 =>
    \A m \in targets : Delay(fnode, m) > 0 \/ temp => Effective(fnode, m) = FreezeDelay

\* When remove() has returned, and no freeze is under way, the nodes on which
\* nothing has failed have no rules, those of earlier runs and of dead
\* processes included: remove after apply.
NothingLeft ==
  mpc = "removed" /\ ~Freezing => \A n \in Nodes \ residue : tc[n] = NoRules

\* "delete and re-create matched bands with their **original** delays"
\* (network_latency.py:484): a freeze that has ended leaves the traffic to
\* its targets with the delays that apply() gave it, where no command fails.
RestoresOriginal ==
  fpc = "done" /\ mpc = "applied" =>
    \A m \in targets : Alike(Effective(fnode, m), Delay(fnode, m))
=============================================================================
