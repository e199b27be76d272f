---------------------------- MODULE Publication ----------------------------
(***************************************************************************)
(* Publication of an artifact graph (pkg/artifact publish.go,              *)
(* publish_bundle.go, publish_result.go, rewrite.go, rewrite_plan.go): a   *)
(* Sandbox (E) names chains of disk layers, a Snapshot (S) names a chain of *)
(* memory layers and an E.  A publisher puts the local layers into its      *)
(* target, keeps the references that are portable already, and puts the     *)
(* root last.  A rewrite replaces references or reduces a chain to one      *)
(* layer, after its whole plan has been verified.  A Bundle is published    *)
(* exactly: its root and the members its root names.                        *)
(*                                                                         *)
(* Objects are content addressed: a published object is its own value.      *)
(* A layer maps blocks to a value or to "hole".  How a single object is     *)
(* committed in a location is in LocationPublish; a Checkpoint E is         *)
(* materialized first, which is in ManagedDirectory.                        *)
(***************************************************************************)
EXTENDS Integers, Sequences, FiniteSets, SequencesExt

CONSTANTS Publishers,  \* processes, one target
          Blocks, Content,   \* ref -> layer
          Sandboxes,   \* ref of an E -> its chains
          Snapshots,   \* ref of an S -> [memory, sandbox]
          Portable,    \* refs that are portable and published already
          Options,     \* the rewrites that are asked for
          NoOptions,   \* no rewrite
          MaxRuns, MaxFaults, NoLayer, None

VARIABLES target,   \* the objects of the target
          carrier,  \* the root of the Bundle file, which its owner may replace
          lost,     \* refs that can no longer be opened
          memo,     \* per publisher: diskMemo and memoryMemo, refs put already
          pub,      \* per publisher: the publication it runs
          runs, faults

vars == <<target, carrier, lost, memo, pub, runs, faults>>

Idle == [pc |-> "idle", root |-> None, opts |-> NoOptions, disks |-> <<>>,
         memory |-> <<>>, keptE |-> None, todo |-> <<>>, names |-> <<>>,
         before |-> {}, after |-> {}, out |-> None]

Init == /\ target = {}
        /\ carrier \in DOMAIN Sandboxes \ Portable
        /\ lost = {} /\ faults = 0 /\ runs = 0
        /\ memo = [p \in Publishers |-> {}]
        /\ pub = [p \in Publishers |-> Idle]

-----------------------------------------------------------------------------
(* Layers, references and published objects.                               *)

\* fetch.NewLayered over the values of a chain, top first.
layered(layers) ==
  [b \in Blocks |->
     LET data == {i \in DOMAIN layers : layers[i][b] # "hole"}
     IN  IF data = {} THEN "hole"
         ELSE layers[CHOOSE i \in data : \A j \in data : i <= j][b]]

Embedded(chain) == chain.self # NoLayer
Lowers(chain) == IF Embedded(chain) THEN chain.refs ELSE Tail(chain.refs)
Layers(chain, content) ==
  (IF Embedded(chain) THEN <<chain.self>> ELSE <<>>)
    \o [i \in DOMAIN chain.refs |-> content[chain.refs[i]]]

Leaf(layer) == [kind |-> "leaf", layer |-> layer]
Kept(r) == [kind |-> "kept", ref |-> r]

\* compareSparseStreams: the same holes, and the same bytes elsewhere.
compareSparseStreams(x, y) == \A b \in Blocks : x[b] = y[b]

\* keepPortable: a portable reference is published already, and is not opened.
keepPortable(r) == r \in Portable

\* Publisher.open and publicationRewrite.openValue.
open(r) == r \notin lost
openValue(r) == r \notin lost

\* portableDiskRefs: what a Sandbox's configuration names.
DiskRefs(chains) == UNION {ToSet(chains[i].refs) : i \in DOMAIN chains}

IsSnapshot(root) == root \in DOMAIN Snapshots
SandboxOf(root) == IF IsSnapshot(root) THEN Snapshots[root].sandbox ELSE root
Plain(chain) == [self |-> chain.self, refs |-> chain.refs, how |-> "layers",
                 source |-> NoLayer]

\* The leaves of one chain in the order they are put: lowest layer first.
emitChain(chain) ==
  CASE chain.how = "layers" -> Reverse([i \in DOMAIN chain.refs |->
                                          [do |-> "ref", ref |-> chain.refs[i]]])
    [] chain.how = "self"   -> <<>>
    [] chain.how = "target" -> <<[do |-> "ref", ref |-> chain.refs[1]]>>
    [] chain.how = "flat"   -> <<[do |-> "flat", layer |-> chain.source]>>

emitChains(chains) == FlattenSeq([i \in DOMAIN chains |-> emitChain(chains[i])])

-----------------------------------------------------------------------------
(* Publish: the graph is walked and put as it is read.                      *)

\* Whether the E of a Snapshot is kept as it is: portable, so published.
KeepsE(root) == IsSnapshot(root) /\ keepPortable(SandboxOf(root))

\* publishSnapshotRoot: memory layers, then the E, then S; publishSandboxRoot:
\* the dependencies from the last to the first, then the E.
PlainPlan(root) ==
  LET e == SandboxOf(root)
      disks == [i \in DOMAIN Sandboxes[e] |-> Plain(Sandboxes[e][i])]
      memory == IF IsSnapshot(root) THEN <<Plain(Snapshots[root].memory)>> ELSE <<>>
  IN  [Idle EXCEPT !.pc = "emit", !.root = root, !.disks = disks, !.memory = memory,
         !.keptE = IF KeepsE(root) THEN e ELSE None,
         !.todo = emitChains(memory)
                    \o (IF KeepsE(root) THEN <<>>
                        ELSE emitChains(Reverse(disks)) \o <<[do |-> "E"]>>)
                    \o (IF IsSnapshot(root) THEN <<[do |-> "S"]>> ELSE <<>>),
         !.before = {root, e} \cup DiskRefs(memory) \cup DiskRefs(disks),
         !.after = IF KeepsE(root) THEN {e} \cup (DiskRefs(disks) \cap Portable) ELSE {}]

Publish(p, root) ==
  /\ pub[p].pc = "idle" /\ runs < MaxRuns
  /\ runs' = runs + 1
  /\ pub' = [pub EXCEPT ![p] = PlainPlan(root)]
  /\ UNCHANGED <<target, carrier, lost, memo, faults>>

-----------------------------------------------------------------------------
(* PublishWithOptions: verified as a whole, then put.                       *)

\* ParseRewriteOptions: no reference is in two rules, and "any" stands alone.
ParseRewriteOptions(o) ==
  /\ \A x, y \in o.replace : x # y => {x[1], x[2]} \cap {y[1], y[2]} = {}
  /\ \A x, y \in o.reduce : x # y => x[1] # y[1]
  /\ \A x \in o.replace, y \in o.reduce : {x[1], x[2]} \cap {y[1], y[2]} = {}
  /\ o.any => o.replace = {} /\ o.reduce = {}

\* rewriteSession.replace.
replace(o, r) ==
  IF \E rule \in o.replace : rule[1] = r
  THEN (CHOOSE rule \in o.replace : rule[1] = r)[2] ELSE r

\* rewriteSession.reduction: the rule for a chain, named by its top.
reduction(o, selector, chain) ==
  CASE o.any -> IF Lowers(chain) # <<>> THEN "auto" ELSE None
    [] \E rule \in o.reduce : rule[1] = selector ->
         (CHOOSE rule \in o.reduce : rule[1] = selector)[2]
    [] OTHER -> None

Selector(owner, chain) == IF Embedded(chain) THEN owner ELSE Head(chain.refs)

\* validateReductionOverlap: no replacement touches a chain that is reduced.
validateReductionOverlap(o, selector, chain) ==
  \A rule \in o.replace :
     {rule[1], rule[2]} \cap ({selector} \cup ToSet(Lowers(chain))) = {}

\* validateReferencePositions: a reference occurs once in a chain.
validateReferencePositions(refs) ==
  \A i, j \in DOMAIN refs : refs[i] = refs[j] => i = j

\* changedValue: a replacement reads exactly like the layer it replaces.
changedValue(o, old, new) ==
  /\ openValue(new)
  /\ new # old /\ ~o.skip => openValue(old) /\ compareSparseStreams(Content[old], Content[new])

\* chain: the rewritten chain, or None where the plan fails.
rewriteChain(o, owner, chain) ==
  LET selector == Selector(owner, chain)
      to       == reduction(o, selector, chain)
      refs     == [i \in DOMAIN chain.refs |-> replace(o, chain.refs[i])]
      new      == [chain EXCEPT !.refs = refs]
      layers   == Layers(new, Content)
      verified == \A i \in DOMAIN refs : changedValue(o, chain.refs[i], refs[i])
      out(how, rs, source) == [self |-> IF Embedded(chain) THEN chain.self ELSE NoLayer,
                               refs |-> rs, how |-> how, source |-> source]
  IN  CASE to # None /\ ~validateReductionOverlap(o, selector, chain) -> None
        [] to \notin {None, "auto"} /\ (o.skip \/ verified) ->
             IF ~openValue(to) \/ ~(o.skip \/ compareSparseStreams(layered(layers), Content[to]))
             THEN None
             ELSE out(IF Embedded(chain) THEN "self" ELSE "target", <<to>>, Content[to])
        [] ~verified -> None
        [] to = "auto" ->
             IF Embedded(chain) THEN out("self", <<>>, layered(layers))
             ELSE IF Len(refs) > 1 THEN out("flat", <<>>, layered(layers))
             ELSE out("target", refs, layers[1])
        [] to = None /\ validateReferencePositions(refs) ->
             out("layers", refs, NoLayer)
        [] OTHER -> None

rewriteChains(o, owner, chains) ==
  [i \in DOMAIN chains |-> rewriteChain(o, owner, chains[i])]

\* compareSandboxRewrite: the E that replaces another reads like it.
compareSandboxRewrite(old, new) ==
  /\ Len(Sandboxes[old]) = Len(Sandboxes[new])
  /\ \A i \in DOMAIN Sandboxes[old] :
        compareSparseStreams(layered(Layers(Sandboxes[old][i], Content)),
                             layered(Layers(Sandboxes[new][i], Content)))

\* unmatched: every rule names something of the graph.
unmatched(o, root, e) ==
  LET chains  == (IF e = SandboxOf(root) THEN Sandboxes[e] ELSE <<>>)
                   \o (IF IsSnapshot(root) THEN <<Snapshots[root].memory>> ELSE <<>>)
      tops    == {Selector(IF IsSnapshot(root) /\ i = Len(chains) THEN root ELSE e, chains[i]) :
                    i \in DOMAIN chains}
      named   == DiskRefs(chains) \cup (IF IsSnapshot(root) THEN {SandboxOf(root)} ELSE {})
  IN  (\E rule \in o.replace : rule[1] \notin named) \/ (\E rule \in o.reduce : rule[1] \notin tops)

\* The plan of a rewrite, or None: nothing has been put when it fails.
RewritePlan(o, root) ==
  LET old    == SandboxOf(root)
      e      == IF IsSnapshot(root) THEN replace(o, old) ELSE old
      memory == IF IsSnapshot(root)
                THEN rewriteChains(o, root, <<Snapshots[root].memory>>) ELSE <<>>
      disks  == rewriteChains(IF e = old THEN o ELSE NoOptions, e, Sandboxes[e])
  IN  IF \/ ~ParseRewriteOptions(o)
         \/ None \in ToSet(memory) \cup ToSet(disks)
         \/ e # old /\ ~o.skip /\ ~compareSandboxRewrite(old, e)
         \/ unmatched(o, root, e)
      THEN None
      ELSE [Idle EXCEPT !.pc = "emit", !.root = root, !.opts = o, !.disks = disks,
              !.memory = memory,
              !.todo = emitChains(memory) \o emitChains(disks) \o <<[do |-> "E"]>>
                         \o (IF IsSnapshot(root) THEN <<[do |-> "S"]>> ELSE <<>>),
              !.before = {root, old}
                 \cup (IF IsSnapshot(root) THEN ToSet(Snapshots[root].memory.refs) ELSE {})
                 \cup (IF e # old /\ o.skip THEN {} ELSE DiskRefs(Sandboxes[old]))]

PublishWithOptions(p, root, o) ==
  /\ pub[p].pc = "idle" /\ runs < MaxRuns
  /\ runs' = runs + 1
  /\ pub' = [pub EXCEPT ![p] = LET plan == RewritePlan(o, root)
                               IN IF plan = None THEN Idle ELSE plan]
  /\ UNCHANGED <<target, carrier, lost, memo, faults>>

-----------------------------------------------------------------------------
(* Putting the objects of a plan.                                          *)

\* The published form of a chain, once its leaves have been put.
PublishedChain(chain, names) ==
  CASE chain.how = "layers" ->
         [self |-> chain.self, refs |-> [i \in DOMAIN chain.refs |-> names[chain.refs[i]]]]
    [] chain.how = "self"   -> [self |-> chain.source, refs |-> <<>>]
    [] chain.how = "target" -> [self |-> NoLayer, refs |-> <<names[chain.refs[1]]>>]
    [] chain.how = "flat"   -> [self |-> NoLayer, refs |-> <<Leaf(chain.source)>>]

SandboxObject(w) ==
  [kind |-> "E", chains |-> [i \in DOMAIN w.disks |-> PublishedChain(w.disks[i], w.names)]]

SnapshotObject(w) ==
  [kind |-> "S", memory |-> PublishedChain(w.memory[1], w.names),
   sandbox |-> IF w.keptE # None THEN Kept(w.keptE) ELSE SandboxObject(w)]

\* publishDisk, publishMemoryLayer, emitValue: a portable reference is kept;
\* one that this publisher has put before is taken from the memo, which a
\* rewrite does not use; any other is read and put.
publishDisk(p) ==
  LET w == pub[p]  r == Head(w.todo).ref
      name(x) == [w EXCEPT !.todo = Tail(@), !.names = (r :> x) @@ @,
                           !.after = @ \cup (IF x = Kept(r) THEN {r} ELSE {})]
  IN  /\ w.pc = "emit" /\ w.todo # <<>> /\ Head(w.todo).do = "ref"
      /\ IF keepPortable(r)
         THEN /\ pub' = [pub EXCEPT ![p] = name(Kept(r))]
              /\ UNCHANGED <<target, memo>>
         ELSE /\ pub' = [pub EXCEPT ![p] = name(Leaf(Content[r]))]
              /\ IF w.opts = NoOptions /\ r \in memo[p]
                 THEN UNCHANGED <<target, memo>>
                 ELSE /\ w.opts = NoOptions => open(r)
                      /\ target' = target \cup {Leaf(Content[r])}
                      /\ memo' = IF w.opts = NoOptions
                                 THEN [memo EXCEPT ![p] = @ \cup {r}] ELSE memo
      /\ UNCHANGED <<carrier, lost, runs, faults>>

\* emitChain of an external chain that is reduced to one layer.
emitFlat(p) ==
  LET w == pub[p]
  IN  /\ w.pc = "emit" /\ w.todo # <<>> /\ Head(w.todo).do = "flat"
      /\ target' = target \cup {Leaf(Head(w.todo).layer)}
      /\ pub' = [pub EXCEPT ![p].todo = Tail(@)]
      /\ UNCHANGED <<carrier, lost, memo, runs, faults>>

\* publishSandboxRoot, emitSandbox: the E after everything it names.
publishSandboxRoot(p) ==
  LET w == pub[p]
  IN  /\ w.pc = "emit" /\ w.todo # <<>> /\ Head(w.todo).do = "E"
      /\ target' = target \cup {SandboxObject(w)}
      /\ pub' = [pub EXCEPT ![p].todo = Tail(@), ![p].out = SandboxObject(w)]
      /\ UNCHANGED <<carrier, lost, memo, runs, faults>>

\* publishSnapshotRoot: the S, last.
publishSnapshotRoot(p) ==
  LET w == pub[p]
  IN  /\ w.pc = "emit" /\ w.todo # <<>> /\ Head(w.todo).do = "S"
      /\ target' = target \cup {SnapshotObject(w)}
      /\ pub' = [pub EXCEPT ![p].todo = Tail(@), ![p].out = SnapshotObject(w)]
      /\ UNCHANGED <<carrier, lost, memo, runs, faults>>

\* A read or a Put fails, or the process dies: what has been put stays.
Fails(p) ==
  /\ pub[p].pc \in {"emit", "bundle"}
  /\ \/ faults < MaxFaults /\ faults' = faults + 1
     \/ /\ pub[p].pc = "emit" /\ pub[p].opts = NoOptions
        /\ pub[p].todo # <<>> /\ Head(pub[p].todo).do = "ref"
        /\ ~open(Head(pub[p].todo).ref) /\ Head(pub[p].todo).ref \notin memo[p]
        /\ UNCHANGED faults
  /\ \E died \in BOOLEAN :
        memo' = IF died THEN [memo EXCEPT ![p] = {}] ELSE memo
  /\ pub' = [pub EXCEPT ![p] = Idle]
  /\ UNCHANGED <<target, carrier, lost, runs>>

\* result: the report names what the graph named before and no longer names.
Removed(w) == w.before \ w.after

result(p) ==
  /\ pub[p].pc = "emit" /\ pub[p].todo = <<>>
  /\ pub' = [pub EXCEPT ![p].pc = "done"]
  /\ UNCHANGED <<target, carrier, lost, memo, runs, faults>>

\* The caller takes the result.
Taken(p) ==
  /\ pub[p].pc = "done"
  /\ pub' = [pub EXCEPT ![p] = Idle]
  /\ UNCHANGED <<target, carrier, lost, memo, runs, faults>>

-----------------------------------------------------------------------------
(* publishBundle: the members of a Bundle, exactly.                        *)

\* inspectBundleRoot: the root, an E here, is read for what it names.  Every
\* local layer is a member of the Bundle: any other is refused.
inspectBundleRoot(p) ==
  /\ pub[p].pc = "idle" /\ runs < MaxRuns
  /\ runs' = runs + 1
  /\ pub' = [pub EXCEPT ![p] = [PlainPlan(carrier) EXCEPT !.pc = "inspected"]]
  /\ UNCHANGED <<target, carrier, lost, memo, faults>>

\* Mutant: the root of the file that was opened again is not compared.
AnyRoot(p) == TRUE

\* publishBundle: the file is opened again, and its root must be the same.
SameRoot(p) == carrier = pub[p].root

\* selectExactBundleSources, then PutBundle.
selectExactBundleSources(p) ==
  /\ pub[p].pc = "inspected"
  /\ pub' = [pub EXCEPT ![p] = IF SameRoot(p)
                               THEN [@ EXCEPT !.pc = "bundle", !.root = carrier] ELSE Idle]
  /\ UNCHANGED <<target, carrier, lost, memo, runs, faults>>

\* The exact copy: members first, the root last.
PutBundle(p) ==
  LET w == pub[p]
      members == {w.todo[i].ref : i \in {j \in DOMAIN w.todo : w.todo[j].do = "ref"}} \ Portable
      names == [r \in DOMAIN Content |-> IF r \in Portable THEN Kept(r) ELSE Leaf(Content[r])]
      root == [kind |-> "E",
               chains |-> [i \in DOMAIN Sandboxes[w.root] |->
                             PublishedChain(Plain(Sandboxes[w.root][i]), names)]]
  IN  /\ w.pc = "bundle"
      /\ IF \A r \in members : Leaf(Content[r]) \in target
         THEN /\ target' = target \cup {root}
              /\ pub' = [pub EXCEPT ![p] = [@ EXCEPT !.pc = "emit", !.todo = <<>>, !.out = root,
                                              !.after = DiskRefs(w.disks) \cap Portable]]
         ELSE /\ \E r \in members : /\ Leaf(Content[r]) \notin target
                                    /\ target' = target \cup {Leaf(Content[r])}
              /\ UNCHANGED pub
      /\ UNCHANGED <<carrier, lost, memo, runs, faults>>

\* The owner of the Bundle file replaces it.
Replaced ==
  /\ faults < MaxFaults /\ faults' = faults + 1
  /\ carrier' \in (DOMAIN Sandboxes \ Portable) \ {carrier}
  /\ UNCHANGED <<target, lost, memo, pub, runs>>

\* A local source goes away.
Lose ==
  /\ faults < MaxFaults /\ faults' = faults + 1
  /\ \E r \in DOMAIN Content \ (Portable \cup lost) : lost' = lost \cup {r}
  /\ UNCHANGED <<target, carrier, memo, pub, runs>>

-----------------------------------------------------------------------------
Roots == (DOMAIN Sandboxes \ Portable) \cup DOMAIN Snapshots

Next ==
  \/ \E p \in Publishers :
       \/ \E root \in Roots : Publish(p, root)
       \/ \E root \in Roots, o \in Options : PublishWithOptions(p, root, o)
       \/ publishDisk(p) \/ emitFlat(p) \/ publishSandboxRoot(p) \/ publishSnapshotRoot(p)
       \/ inspectBundleRoot(p) \/ selectExactBundleSources(p) \/ PutBundle(p)
       \/ Fails(p) \/ result(p) \/ Taken(p)
  \/ Replaced \/ Lose

Spec == Init /\ [][Next]_vars

-----------------------------------------------------------------------------
\* What an object of the target names.
ChainNames(chain) == ToSet(chain.refs)
ObjectNames(o) ==
  CASE o.kind = "E" -> UNION {ChainNames(o.chains[i]) : i \in DOMAIN o.chains}
    [] o.kind = "S" -> ChainNames(o.memory) \cup {o.sandbox}
    [] OTHER -> {}

\* Everything a published Sandbox or Snapshot names is in the target, or was
\* portable before: whatever fails, dies, or is put at the same time, no root
\* is visible before its leaves (publishSandboxRoot, emitSandbox, PutBundle).
RootsComplete ==
  \A o \in target : \A n \in ObjectNames(o) :
     n \in target \/ n \in {Kept(r) : r \in Portable}

\* What a published chain reads as.
Reads(chain) ==
  layered((IF chain.self # NoLayer THEN <<chain.self>> ELSE <<>>)
     \o [i \in DOMAIN chain.refs |->
           IF chain.refs[i].kind = "kept" THEN Content[chain.refs[i].ref] ELSE chain.refs[i].layer])
SourceReads(chain) == layered(Layers(chain, Content))
SandboxReads(o, e) ==
  IF o.kind = "kept" THEN o.ref = e
  ELSE \A i \in DOMAIN Sandboxes[e] : Reads(o.chains[i]) = SourceReads(Sandboxes[e][i])

\* No root is visible before its leaves; a publication that skips no
\* verification returns a root whose every disk and memory reads as the
\* source's did, however its references were replaced and its chains reduced
\* (changedValue, chain, compareSandboxRewrite); and it reports as removed no
\* reference that the published graph still names (Publisher.result).
PublishedExact ==
  /\ RootsComplete
  /\ \A p \in Publishers : pub[p].pc = "done" =>
        LET w == pub[p]  o == w.out
            kept == {n.ref : n \in {m \in ObjectNames(o)
                        \cup (IF o.kind = "S" /\ o.sandbox.kind = "E" THEN ObjectNames(o.sandbox) ELSE {}) :
                        m.kind = "kept"}}
        IN  /\ ~w.opts.skip =>
                 IF o.kind = "S"
                 THEN Reads(o.memory) = SourceReads(Snapshots[w.root].memory)
                        /\ SandboxReads(o.sandbox, SandboxOf(w.root))
                 ELSE SandboxReads(o, w.root)
            /\ Removed(w) \cap kept = {}
=============================================================================
