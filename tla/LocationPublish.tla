--------------------------- MODULE LocationPublish ---------------------------
(***************************************************************************)
(* Publication to a named location, a directory several publishers share   *)
(* without rename, link or lock (pkg/artifact): a final is created         *)
(* exclusively under its content-addressed name, written in place, and     *)
(* validated through a second descriptor; a publisher that finds the name  *)
(* taken validates and reuses what is there, waiting for a bounded time.   *)
(*                                                                         *)
(* Files are inodes.  os.SameFile compares inode numbers, and the number   *)
(* of an unlinked file is given out again once no descriptor is open.      *)
(***************************************************************************)
EXTENDS Naturals, Sequences, FiniteSets, Functions

CONSTANTS
  Publishers,
  Inodes,        \* inode numbers of the directory's file system
  MaxCleans,     \* explicit clean-ups of incomplete finals
  MaxCrashes     \* publishers that die

VARIABLES
  dir,       \* name -> inode, 0 when there is none
  content,   \* inode -> "partial" or "whole"
  creator,   \* inode -> the publisher that created it
  withdrawn, \* names whose complete final its own creator removed
  pub,       \* what each publisher does
  cleans, crashes

vars == <<dir, content, creator, withdrawn, pub, cleans, crashes>>

Names == {"dep", "root"}

\* The two targets that commit a Bundle: a graph of Bundles copied from its
\* directory, and one Bundle encoded from a source.
Kinds == {"bundle", "single"}

-----------------------------------------------------------------------------

\* Dependencies first, the root last; a dependency that is missing at the
\* source is left out, and must then be missing at the target too.
Files(p) ==
  IF pub[p].kind = "bundle" /\ pub[p].avail THEN <<"dep", "root">> ELSE <<"root">>

Name(p) == Files(p)[pub[p].file]

\* verifyUnavailableBundleTargets
UnavailableStayAway(p) ==
  pub[p].kind = "bundle" /\ ~ pub[p].avail => dir["dep"] = 0

Open(p) == pub[p].pins

Free == {k \in Inodes : k \notin Range(dir) /\ \A p \in Publishers : k \notin Open(p)}

Idle == [pc |-> "create", file |-> 1, own |-> 0, pins |-> {}]

To(p, pc) == pub' = [pub EXCEPT ![p].pc = pc]

Ends(p, how) ==
  pub' = [pub EXCEPT ![p].pc = how, ![p].pins = {}, ![p].own = 0, ![p].file = 1]

\* The next file of the plan, or the verification of the whole graph.
NextFile(p) ==
  IF pub[p].file < Len(Files(p))
    THEN pub' = [pub EXCEPT ![p].pc = "create", ![p].file = @ + 1, ![p].own = 0,
                            ![p].pins = {}]
    ELSE pub' = [pub EXCEPT ![p].pc = IF pub[p].kind = "bundle" THEN "graph"
                                      ELSE "returned",
                            ![p].own = 0, ![p].pins = {}, ![p].file = 1]

files == <<dir, content, creator, withdrawn>>

env == <<cleans, crashes>>

Init ==
  /\ dir = [n \in Names |-> 0]
  /\ content = [k \in Inodes |-> "partial"]
  /\ creator = [k \in Inodes |-> 0]
  /\ pub \in [Publishers -> [pc : {"create"}, file : {1}, own : {0}, pins : {{}},
                             kind : Kinds, avail : BOOLEAN]]
  /\ \A p \in Publishers : pub[p].kind = "single" => pub[p].avail
  /\ withdrawn = {} /\ cleans = 0 /\ crashes = 0

\* O_CREATE|O_EXCL; the root of a graph is created only with every
\* unavailable dependency still absent.
createExclusive(p) ==
  /\ pub[p].pc = "create"
  /\ IF Name(p) = "root" /\ ~ UnavailableStayAway(p)
       THEN Ends(p, "failed") /\ UNCHANGED files
       ELSE IF dir[Name(p)] # 0
       THEN To(p, "reuse") /\ UNCHANGED files
       ELSE \E k \in Free :
              /\ \A j \in Free : k <= j
              /\ dir' = [dir EXCEPT ![Name(p)] = k]
              /\ content' = [content EXCEPT ![k] = "partial"]
              /\ creator' = [creator EXCEPT ![k] = p]
              /\ UNCHANGED withdrawn
              /\ pub' = [pub EXCEPT ![p].pc = "write", ![p].own = k,
                                    ![p].pins = {k}]
  /\ UNCHANGED env

\* The one write, through the descriptor, wherever the name points by now.
publishFresh(p) ==
  /\ pub[p].pc = "write"
  /\ \/ /\ content' = [content EXCEPT ![pub[p].own] = "whole"]
        /\ To(p, "check")
     \/ To(p, "remove") /\ UNCHANGED content
  /\ UNCHANGED <<dir, creator, withdrawn, env>>

\* With the descriptor still open the name is compared with the inode; the
\* guard then pins the inode while the write descriptor is closed.
checkFresh(p) ==
  /\ pub[p].pc = "check"
  /\ IF dir[Name(p)] = pub[p].own THEN To(p, "verify") ELSE Ends(p, "failed")
  /\ UNCHANGED <<files, env>>

\* The verifier reads the whole file; an error or a cancellation here still
\* removes the file, although it is complete by now.
verifyFresh(p) ==
  /\ pub[p].pc = "verify"
  /\ \/ /\ dir[Name(p)] = pub[p].own /\ content[pub[p].own] = "whole"
        /\ To(p, "commit")
     \/ dir[Name(p)] = 0 /\ To(p, "remove")
     \/ dir[Name(p)] \notin {0, pub[p].own} /\ Ends(p, "failed")
     \/ dir[Name(p)] = pub[p].own /\ To(p, "remove")
  /\ UNCHANGED <<files, env>>

commitFresh(p) ==
  /\ pub[p].pc = "commit"
  /\ IF dir[Name(p)] = pub[p].own THEN NextFile(p) ELSE Ends(p, "failed")
  /\ UNCHANGED <<files, env>>

\* The unlink of a failed publication, with what the property must know of it.
Unlink(p, names) ==
  /\ dir' = [n \in Names |-> IF n \in names THEN 0 ELSE dir[n]]
  /\ withdrawn' = withdrawn \cup
       {n \in names : dir[n] # 0 /\ creator[dir[n]] = p /\ content[dir[n]] = "whole"}
  /\ Ends(p, "failed")
  /\ UNCHANGED <<content, creator, env>>

\* Mutant: whatever the name points to is removed.
removeNamed(p) == pub[p].pc = "remove" /\ Unlink(p, {Name(p)})

\* Only the inode this publisher created, and while a descriptor pins it.
\* The lstat and the unlink are one step here.
removeOwned(p) ==
  /\ pub[p].pc = "remove"
  /\ Unlink(p, {n \in {Name(p)} : dir[n] = pub[p].own})

\* An existing final: a complete one is validated through an open descriptor,
\* an incomplete one is tried again until the window ends.
reuseExisting(p) ==
  /\ pub[p].pc = "reuse"
  /\ LET k == dir[Name(p)] IN
       \/ k = 0 /\ To(p, "create")
       \/ /\ k # 0 /\ content[k] = "whole"
          /\ pub' = [pub EXCEPT ![p].pc = "validated", ![p].own = k, ![p].pins = {k}]
       \/ k # 0 /\ content[k] = "partial" /\ Ends(p, "failed")
  /\ UNCHANGED <<files, env>>

\* The name must still be the validated inode; else creation starts again.
validateFinal(p) ==
  /\ pub[p].pc = "validated"
  /\ IF dir[Name(p)] = pub[p].own
       THEN NextFile(p)
       ELSE pub' = [pub EXCEPT ![p].pc = "create", ![p].own = 0, ![p].pins = {}]
  /\ UNCHANGED <<files, env>>

\* The copied graph is opened and verified at the target ...
verifyLocatedBundlePlan(p) ==
  /\ pub[p].pc = "graph"
  /\ IF \A n \in Range(Files(p)) : dir[n] # 0 /\ content[dir[n]] = "whole"
       THEN pub' = [pub EXCEPT ![p].pc = "verified",
                               ![p].pins = {dir[n] : n \in Range(Files(p))}]
       ELSE Ends(p, "failed")
  /\ UNCHANGED <<files, env>>

\* ... the names are compared once more, and the root reference is returned.
PutBundle(p) ==
  /\ pub[p].pc = "verified"
  /\ IF /\ {dir[n] : n \in Range(Files(p))} = pub[p].pins
        /\ UnavailableStayAway(p)
       THEN Ends(p, "returned") ELSE Ends(p, "failed")
  /\ UNCHANGED <<files, env>>

-----------------------------------------------------------------------------

\* A publisher dies; its descriptors close, its incomplete final stays.
Crash(p) ==
  /\ crashes < MaxCrashes /\ pub[p].pc \notin {"failed", "returned"}
  /\ crashes' = crashes + 1
  /\ Ends(p, "failed")
  /\ UNCHANGED <<files, cleans>>

\* The explicit clean-up the error of an abandoned final asks for.
CleanUp(n) ==
  /\ cleans < MaxCleans /\ dir[n] # 0 /\ content[dir[n]] = "partial"
  /\ cleans' = cleans + 1
  /\ dir' = [dir EXCEPT ![n] = 0]
  /\ UNCHANGED <<content, creator, withdrawn, pub, crashes>>

\* A failed publication is started again.
Retry(p) ==
  /\ pub[p].pc = "failed" /\ crashes = MaxCrashes
  /\ To(p, "create")
  /\ UNCHANGED <<files, env>>

Next ==
  \/ \E p \in Publishers :
       \/ createExclusive(p) \/ publishFresh(p) \/ checkFresh(p)
       \/ verifyFresh(p) \/ commitFresh(p) \/ removeOwned(p)
       \/ reuseExisting(p) \/ validateFinal(p)
       \/ verifyLocatedBundlePlan(p) \/ PutBundle(p)
       \/ Crash(p) \/ Retry(p)
  \/ \E n \in Names : CleanUp(n)

Spec == Init /\ [][Next]_vars

-----------------------------------------------------------------------------

\* A reference that was returned stays good: its file, and the dependencies
\* copied with it, are there and complete, whatever other publishers of the
\* same names, crashes and clean-ups of incomplete finals do (removeOwned,
\* validateFinal, PutBundle).  One thing can take it away: the creator of a
\* final that others have reused fails after it wrote it.
PublishedStays ==
  \A p \in Publishers : pub[p].pc = "returned" =>
    \A n \in Range(Files(p)) :
      n \in withdrawn \/ (dir[n] # 0 /\ content[dir[n]] = "whole")
=============================================================================
