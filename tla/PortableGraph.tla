--------------------------- MODULE PortableGraph ---------------------------
(***************************************************************************)
(* What a Sandbox artifact says its disks are (pkg/config: the portable    *)
(* configuration C0/C1) and how that changes over the generations of a     *)
(* sandbox: a cold run, an export with or without merged layers, a run     *)
(* from an export, a restore, a named checkpoint, a run that reopens or    *)
(* materializes a checkpoint, and a publication that rewrites references.  *)
(*                                                                         *)
(* An artifact is named by its contents (a digest), so a reference is      *)
(* modelled by the contents themselves and by where they are kept: layers  *)
(* in the directory of the sandbox ("own") are merged by an export, layers *)
(* elsewhere are not.  A payload is a sparse disk.  There is the root disk *)
(* and one data disk.  The persistent configuration (launch, mounts,       *)
(* files, init, metadata, capacity) is one setting; host-only and          *)
(* instance-only fields, and the syntax of references, are left out.       *)
(***************************************************************************)
EXTENDS Naturals, Sequences, SequencesExt

CONSTANTS
    Blocks,                     \* the blocks of a disk
    Values,                     \* what a block may hold
    Hole,                       \* ... or nothing
    Formatted,                  \* the content of every block of a fresh file system
    Built,                      \* ... and of a root image
    Original, Override,         \* the settings of a cold run, and of a host that overrides them
    MaxPortableArtifactRefs,    \* references a configuration may hold
    MaxWrites, MaxCaptures, MaxRuns

Devices == {"root", "data"}

Empty == [b \in Blocks |-> Hole]
Over(p, q) == [b \in Blocks |-> IF p[b] # Hole THEN p[b] ELSE q[b]]

Self == [kind |-> "self"]
Absent == [kind |-> "none"]
Layer(p, where) == [kind |-> "layer", payload |-> p, where |-> where]
Sandbox(p, c, where) == [kind |-> "sandbox", payload |-> p, portable |-> c, where |-> where]
Checkpoint(diffs, c) == [kind |-> "checkpoint", diffs |-> diffs, portable |-> c]

Compose(refs) == FoldRight(LAMBDA r, below : Over(r.payload, below), refs, Empty)

VARIABLES
    run,        \* the run in progress
    shown,      \* history: what the disks of the run hold
    made,       \* history: the latest artifact, with what its disks held when it was made
    writes, captures, runs

vars == <<run, shown, made, writes, captures, runs>>

-----------------------------------------------------------------------------
(* A disk: RootConfig and PortableRootConfig.  In overlay mode base is the *)
(* read-only image and upper the top of the writable chain; otherwise base *)
(* is the top.                                                             *)

Single(base, from) ==
    [base |-> base, from |-> from, overlay |-> FALSE, upper |-> Absent, upperFrom |-> <<>>]
Overlaid(base, upper, from) ==
    [base |-> base, from |-> <<>>, overlay |-> TRUE, upper |-> upper, upperFrom |-> from]

Top(g) == IF g.overlay THEN g.upper ELSE g.base
Lowers(g) == IF g.overlay THEN g.upperFrom ELSE g.from
WithChain(g, top, lowers) ==
    IF g.overlay THEN Overlaid(g.base, top, lowers) ELSE Single(top, lowers)

(* The layers under the writable diff, upmost first. *)
Chain(g) == IF Top(g) = Absent THEN <<>> ELSE <<Top(g)>> \o Lowers(g)

Image(g) == IF g.overlay THEN g.base.payload ELSE Empty

View(diff, g) == [image |-> Image(g), blocks |-> Over(diff, Compose(Chain(g)))]

prependUniqueRef(ref, refs) ==
    IF ref = Absent THEN refs ELSE <<ref>> \o SelectSeq(refs, LAMBDA r : r # ref)
withoutPortableRef(refs, excluded) == SelectSeq(refs, LAMBDA r : r # excluded)

-----------------------------------------------------------------------------
(* PortableSandboxConfig.Validate *)

validatePortableRefList(refs) == IsInjective(refs) /\ \A i \in DOMAIN refs : refs[i] # Self

ChainValid(top, lowers, rootDisk) ==
    /\ top = Self => rootDisk
    /\ validatePortableRefList(lowers)
    /\ top \notin Range(lowers)
    /\ lowers # <<>> => top # Absent

validatePortableRoot(g, rootDisk) ==
    /\ ChainValid(g.base, g.from, rootDisk)
    /\ g.overlay =>
        /\ g.from = <<>> /\ g.base # Absent
        /\ ChainValid(g.upper, g.upperFrom, rootDisk)
        /\ rootDisk /\ g.base = Self => g.upper = Absent /\ g.upperFrom = <<>>

Refs(g) == <<g.base>> \o g.from \o <<g.upper>> \o g.upperFrom
portableSelfCount(boot) ==
    LET Selves(d) == Len(SelectSeq(Refs(boot[d]), LAMBDA r : r = Self))
    IN Selves("root") + Selves("data")
portableArtifactRefCount(boot) ==
    LET Named(d) == Len(SelectSeq(Refs(boot[d]), LAMBDA r : r \notin {Self, Absent}))
    IN Named("root") + Named("data")

Validate(c) ==
    /\ \A d \in Devices : validatePortableRoot(c.boot[d], d = "root")
    /\ portableSelfCount(c.boot) = IF c.checkpointLayout THEN 0 ELSE 1
    /\ portableArtifactRefCount(c.boot) <= MaxPortableArtifactRefs

-----------------------------------------------------------------------------
(* The configurations of the generations. *)

projectColdRoot(g, isRoot) ==
    IF isRoot THEN WithChain(g, Self, Chain(g)) ELSE g

ProjectPortableCold(boot, s) ==
    [boot |-> [d \in Devices |-> projectColdRoot(boot[d], d = "root")],
     checkpointLayout |-> FALSE, setting |-> s]

(* The offline export of a flattened root image. *)
NewPortableEROFS(boot, s) ==
    [ProjectPortableCold(boot, s) EXCEPT !.boot["root"] = Overlaid(Self, Absent, <<>>)]

MaterializedCheckpoint(c, dataRef) ==
    [c EXCEPT !.boot = [d \in Devices |->
                  WithChain(@[d], IF d = "root" THEN Self ELSE dataRef,
                            prependUniqueRef(Top(@[d]), Lowers(@[d])))],
              !.checkpointLayout = FALSE]

Checkpointed(c, parent) ==
    LET replace(base, lowers) ==
            IF base # Self THEN <<base, lowers>>
            ELSE IF parent = Absent /\ lowers # <<>> THEN <<Head(lowers), Tail(lowers)>>
            ELSE <<parent, lowers>>
        g == c.boot["root"]
        b == replace(g.base, g.from)
        u == replace(g.upper, g.upperFrom)
    IN IF c.checkpointLayout THEN c
       ELSE [c EXCEPT !.boot["root"] = IF @.overlay THEN Overlaid(b[1], u[1], u[2])
                                       ELSE Single(b[1], b[2]),
                      !.checkpointLayout = TRUE]

DirectEROFS(g) == g.overlay /\ g.base = Self /\ g.upper = Absent

(* The mutant drops the parent's own lower chain instead of the parent. *)
ExportedDropsLowers(c, parent, dataRef, merged) ==
    IF c.checkpointLayout THEN MaterializedCheckpoint(c, dataRef)
    ELSE LET g == c.boot["root"]
             e == c.boot["data"]
             kept == IF merged["data"] THEN <<>> ELSE prependUniqueRef(Top(e), Lowers(e))
         IN [c EXCEPT
              !.boot["root"] =
                  IF DirectEROFS(g) THEN Overlaid(parent, Self, <<>>)
                  ELSE WithChain(g, Self, IF merged["root"] THEN <<>>
                                          ELSE prependUniqueRef(parent, Lowers(g))),
              !.boot["data"] = WithChain(e, dataRef, withoutPortableRef(kept, dataRef))]

Exported(c, parent, dataRef, merged) ==
    IF c.checkpointLayout THEN MaterializedCheckpoint(c, dataRef)
    ELSE LET g == c.boot["root"]
             e == c.boot["data"]
             kept == IF merged["data"] THEN Lowers(e) ELSE prependUniqueRef(Top(e), Lowers(e))
         IN [c EXCEPT
              !.boot["root"] =
                  IF DirectEROFS(g)
                  THEN Overlaid(IF parent # Absent /\ ~merged["root"] THEN parent ELSE g.base,
                                Self, <<>>)
                  ELSE WithChain(g, Self, IF merged["root"] THEN Lowers(g)
                                          ELSE prependUniqueRef(parent, Lowers(g))),
              !.boot["data"] = WithChain(e, dataRef, withoutPortableRef(kept, dataRef))]

(* A publication copies what an artifact names and rewrites the references. *)
Published(ref) == IF ref.kind = "layer" \/ ref.kind = "sandbox"
                  THEN [ref EXCEPT !.where = "elsewhere"] ELSE ref

RewriteDiskArtifactRefs(c) ==
    LET rewrite(r) == IF r \in {Self, Absent} THEN r ELSE Published(r)
        rewrites(refs) == [i \in DOMAIN refs |-> rewrite(refs[i])]
    IN [c EXCEPT !.boot = [d \in Devices |->
            [@[d] EXCEPT !.base = rewrite(@), !.from = rewrites(@),
                         !.upper = rewrite(@), !.upperFrom = rewrites(@)]]]

(* bindPortableDiskGraph: the run reads the artifact where C0 says self. *)
bindPortableDiskGraph(boot, source) ==
    LET bind(r) == IF r = Self THEN source ELSE r
    IN [d \in Devices |-> [boot[d] EXCEPT !.base = bind(@), !.upper = bind(@)]]

-----------------------------------------------------------------------------
NoRun == [up |-> FALSE]

(* A writable diff is created empty over layers, from a formatted template  *)
(* where there are none.                                                    *)
FreshDiff(g) == IF Chain(g) = <<>> THEN [b \in Blocks |-> Formatted] ELSE Empty

(* What a run that opens the artifact sees on its disks. *)
Opens(ref) ==
    LET bound == bindPortableDiskGraph(ref.portable.boot, ref)
    IN [d \in Devices |->
           View(IF ref.kind = "checkpoint" THEN ref.diffs[d] ELSE FreshDiff(bound[d]), bound[d])]

(* Layers of some registry, and the boot definitions a host may give. *)
Registry(v) == Layer([b \in Blocks |-> v], "elsewhere")
HostBoots(image, layer) ==
    {[d \in Devices |-> IF d = "root" THEN g[1] ELSE g[2]] :
        g \in {<<Overlaid(image, layer, <<>>), Single(layer, <<>>)>>,
               <<Single(layer, <<>>), Overlaid(image, Absent, <<>>)>>}}

-----------------------------------------------------------------------------
(* A run starts; the one before it has ended.  A run that nothing captures  *)
(* leaves nothing behind, so only runs that something captures are counted. *)
Launch(c, bound, source, diffs, views) ==
    /\ runs < MaxRuns /\ runs <= captures
    /\ runs' = runs + 1
    /\ Validate(c)
    /\ run' = [up |-> TRUE, c0 |-> c, boot |-> bound, source |-> source, diff |-> diffs]
    /\ shown' = [views |-> views, setting |-> c.setting]
    /\ UNCHANGED <<made, writes, captures>>

(* An explicit cold run; source and parent are absent. *)
Cold(boot, s) ==
    LET diffs == [d \in Devices |-> FreshDiff(boot[d])]
    IN Launch(ProjectPortableCold(boot, s), boot, Absent, diffs,
              [d \in Devices |-> View(diffs[d], boot[d])])

(* run --from an ordinary artifact: its disk graph; a persistent setting    *)
(* that the host names becomes the new C0's.                                *)
applyPersistentFromOverrides(c, s) == IF s = Absent THEN c ELSE [c EXCEPT !.setting = s]

LaunchFrom(c, ref, views) ==
    LET bound == bindPortableDiskGraph(c.boot, ref)
    IN Launch(c, bound, ref, [d \in Devices |-> FreshDiff(bound[d])], views)

ApplyFromRules(a, s) ==
    /\ a.ref.kind = "sandbox"
    /\ LaunchFrom(applyPersistentFromOverrides(a.ref.portable, s), a.ref, a.views)

(* ... with ReplaceBoot: the host's disks, the artifact's settings. *)
ReplaceBoot(a, boot, s) == Cold(boot, applyPersistentFromOverrides(a.ref.portable, s).setting)

(* run --restore: the artifact's configuration as it is. *)
ApplyRestoreRules(a) == a.ref.kind = "sandbox" /\ LaunchFrom(a.ref.portable, a.ref, a.views)

(* A run of a named checkpoint that reopens the writable diffs where they   *)
(* are, over the same graph.                                                *)
Reopen(a, s) ==
    /\ a.ref.kind = "checkpoint"
    /\ LET c == applyPersistentFromOverrides(a.ref.portable, s)
       IN Launch(c, c.boot, a.ref, a.ref.diffs, a.views)

(* MaterializePinnedCheckpoint: the diffs become ordinary artifacts. *)
Materialized(ref, where) ==
    Sandbox(ref.diffs["root"],
            MaterializedCheckpoint(ref.portable, Layer(ref.diffs["data"], where)), where)

(* materializedColdGraph: the configuration in effect over the new graph. *)
Materialize(a, s) ==
    /\ a.ref.kind = "checkpoint"
    /\ LET e == Materialized(a.ref, "elsewhere")
           c == applyPersistentFromOverrides(a.ref.portable, s)
           effective == MaterializedCheckpoint(c, e.portable.boot["data"].base)
       IN /\ Validate(e.portable)
          /\ LaunchFrom([effective EXCEPT !.boot = e.portable.boot], e, a.views)

Write(d, b, v) ==
    /\ run.up /\ writes < MaxWrites
    /\ writes' = writes + 1
    /\ run' = [run EXCEPT !.diff[d][b] = v]
    /\ shown' = [shown EXCEPT !.views[d].blocks[b] = v]
    /\ UNCHANGED <<made, captures, runs>>

-----------------------------------------------------------------------------
Makes(ref, was) ==
    /\ captures < MaxCaptures
    /\ captures' = captures + 1
    /\ Validate(ref.portable)
    /\ made' = {[ref |-> ref, views |-> was.views, setting |-> was.setting]}
    /\ UNCHANGED <<run, shown, writes, runs>>

(* checkpointPrefix: the layers in the directory of the sandbox, upmost     *)
(* first, up to the first one elsewhere.                                    *)
checkpointLayer(ref) == ref.where = "own"

checkpointPrefix(refs) ==
    LET n == CHOOSE k \in 0..Len(refs) :
                 /\ \A i \in 1..k : checkpointLayer(refs[i])
                 /\ k < Len(refs) => ~checkpointLayer(refs[k + 1])
    IN SubSeq(refs, 1, n)

(* currentDiskParentBinding: only a run that has a source merges, and never *)
(* the image of a direct EROFS source with the diff above it.               *)
parentRefs(d) ==
    LET g == run.c0.boot[d]
    IN IF run.source = Absent \/ run.c0.checkpointLayout \/ (d = "root" /\ DirectEROFS(g))
       THEN <<>>
       ELSE IF d = "root" THEN <<run.source>> \o Lowers(g)
       ELSE Chain(g)

(* An export of the running sandbox (captureSandboxAtFreeze): the data disk *)
(* first, then the root with C1, which is not known before the data disk's  *)
(* reference is.                                                            *)
Export(where) ==
    LET prefix == [d \in Devices |-> checkpointPrefix(parentRefs(d))]
        merged == [d \in Devices |-> prefix[d] # <<>>]
        payload == [d \in Devices |-> Over(run.diff[d], Compose(prefix[d]))]
        trimmed == [run.c0 EXCEPT !.boot = [d \in Devices |->
                        IF merged[d]
                        THEN WithChain(@[d], Top(@[d]),
                                       SubSeq(Lowers(@[d]), Len(prefix[d]), Len(Lowers(@[d]))))
                        ELSE @[d]]]
        c1 == Exported(trimmed, run.source, Layer(payload["data"], where), merged)
    IN run.up /\ Makes(Sandbox(payload["root"], c1, where), shown)

(* A named checkpoint: the diffs stay in the managed directory. *)
TakeCheckpoint ==
    run.up /\ Makes(Checkpoint(run.diff, Checkpointed(run.c0, run.source)), shown)

(* The offline export of a root image. *)
Pack(boot, s, v) ==
    Makes(Sandbox([b \in Blocks |-> v], NewPortableEROFS(boot, s), "elsewhere"),
          [setting |-> s,
           views |-> [d \in Devices |->
               IF d = "root" THEN [image |-> [b \in Blocks |-> v],
                                   blocks |-> [b \in Blocks |-> Formatted]]
               ELSE View(FreshDiff(boot[d]), boot[d])]])

(* A publication of an artifact, a checkpoint as what it materializes to. *)
Publish(a) ==
    LET e == IF a.ref.kind = "checkpoint" THEN Materialized(a.ref, "own") ELSE a.ref
    IN /\ Validate(e.portable)
       /\ Makes([e EXCEPT !.where = "elsewhere",
                          !.portable = RewriteDiskArtifactRefs(@)], a)

-----------------------------------------------------------------------------
Init ==
    /\ run = NoRun /\ shown = NoRun /\ made = {}
    /\ writes = 0 /\ captures = 0 /\ runs = 0

Boots == HostBoots(Registry(Built), Registry(Formatted))
Given == [value |-> Original]
Overrides == {[value |-> Override], Absent}

Next ==
    \/ \E boot \in Boots : Cold(boot, Given)
    \/ \E a \in made, s \in Overrides : ApplyFromRules(a, s) \/ Reopen(a, s) \/ Materialize(a, s)
    \/ \E a \in made, boot \in Boots, s \in Overrides : ReplaceBoot(a, boot, s)
    \/ \E a \in made : ApplyRestoreRules(a) \/ Publish(a)
    \/ \E d \in Devices, b \in Blocks, v \in Values : Write(d, b, v)
    \/ \E where \in {"own", "elsewhere"} : Export(where)
    \/ TakeCheckpoint
    \/ \E boot \in Boots, v \in Values : Pack(boot, Given, v)

Spec == Init /\ [][Next]_vars

-----------------------------------------------------------------------------
(* Through any number of generations, a disk reads what was written: the    *)
(* disks of the run are the layers its C0 names under its diff, and every   *)
(* artifact opens as the disks it was made of, whatever was merged, shared, *)
(* checkpointed, materialized or published on the way (Exported,            *)
(* Checkpointed, MaterializedCheckpoint, bindPortableDiskGraph); and it     *)
(* carries the setting that the latest run to give one gave.                *)
CapturedExact ==
    /\ run.up => /\ \A d \in Devices : View(run.diff[d], run.boot[d]) = shown.views[d]
                 /\ run.c0.setting = shown.setting
    /\ \A a \in made : Opens(a.ref) = a.views /\ a.ref.portable.setting = a.setting
=============================================================================
