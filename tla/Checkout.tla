------------------------------ MODULE Checkout ------------------------------
(***************************************************************************)
(* The working copy of a facet subtree (src/checkout.rs): checkout writes  *)
(* it to disk, the user edits the files, flush compares them with the      *)
(* store and applies the differences.                                      *)
(*                                                                         *)
(* checkout, diff and flush talk to the store directly, not to the gate.   *)
(* Other callers keep writing to the store all the while: the Server       *)
(* actions, atomic as GatedStore says.  A flush compares one file per      *)
(* statement, applies one difference per statement (two when it rewrites a *)
(* row: read, then update), and may be abandoned at any of them when its   *)
(* caller goes away.                                                       *)
(*                                                                         *)
(* The user edits between two runs of flush, not during one.  updated_at   *)
(* is only ever tested for equality with the value the manifest recorded:  *)
(* stamped is the set of facets whose updated_at was assigned since.       *)
(***************************************************************************)
EXTENDS FacetStore, SequencesExt

CONSTANTS
  Title,       \* the column a file is named after
  Compared,    \* columns a diff looks at: title, body, status, tags
  Extras,      \* columns rendered but not compared: the keys of meta.extra
  Texts,       \* what a column of a file that was read can hold
  ReadsAs,     \* what the file rendered from a row's columns reads back as
  SlugOf,      \* the slug of a title
  Unset,       \* what a new facet has in the columns no file shows
  Stores,      \* facets tables to start from
  MaxChanges   \* bound: edits of the user and writes of other callers, together

Rendered == Compared \cup Extras

Slugs == Range(SlugOf)

(***************************************************************************)
(* render_markdown and parse_markdown are no inverses: blanks and quotes   *)
(* around a title, a status or a tag are stripped, a tag splits at its     *)
(* commas, the keys of meta.extra turn into text, a title of two lines     *)
(* spills into the body, and a file without a title, or with a '---' in    *)
(* its frontmatter, may not parse at all (ReadsAs is None then).  Bodies   *)
(* that differ by the blanks around them are one value, as facet_differs   *)
(* has it.                                                                 *)
(***************************************************************************)
ASSUME ColumnsAssumption ==
  /\ Title \in Compared
  /\ Rendered \subseteq Columns
  /\ Texts \subseteq Values
  /\ ReadsAs \in [[Rendered -> Values] -> [Rendered -> Texts] \cup {None}]
  /\ SlugOf \in [Values -> Slugs]
  /\ Unset \in Values

ASSUME StoresAssumption ==
  \A fs \in Stores :
    IsTable(fs) /\ ParentsExist(fs) /\ IsForest(fs) /\ IsFiniteSet(DOMAIN fs)

ASSUME ChangesBound == MaxChanges \in Nat

VARIABLES
  stamped,    \* the facets whose updated_at was assigned since the checkout
  disk,       \* the files: what each path holds, as parse_markdown reads it
  broken,     \* the paths of files it cannot read
  manifest,   \* .trak/manifest.json
  at,         \* where the working copy's user is
  force,      \* the flag of the running flush
  unread,     \* files the running flush has yet to compare
  diffs,      \* the differences it found
  next,       \* the one it applies now
  held,       \* the row it read and is about to write back
  edited,     \* how many edits the user made
  served,     \* how many writes others made
  foreign,    \* the facets they wrote since the checkout
  calm        \* nobody else wrote since the flush began

local == <<disk, broken, manifest>>
history == <<edited, served, foreign>>
allVars == <<facets, edges, minted, stamped, disk, broken, manifest, at, force, unread,
             diffs, next, held, edited, served, foreign, calm>>

(***************************************************************************)
(* A file name is a slug and the number that makes it unique among its     *)
(* siblings; a path runs from the top of the working copy down.  The       *)
(* children of <p>.md are the files in directory <p>.                      *)
(***************************************************************************)
Names == Slugs \X (Nat \ {0})

File == [id : Parents, hint : Parents, cols : [Rendered -> Texts]]

ManifestEntry == [path : Seq(Names), parent : Parents]

DiffEntry ==
  [kind : {"created", "modified", "moved", "deleted", "conflict"}, id : Parents,
   path : Seq(Names), parent : Parents]

Entry(kind, id, path, parent) == [kind |-> kind, id |-> id, path |-> path, parent |-> parent]

Places == {"none", "ready", "diff", "apply", "write", "flushed"}

TypeOK ==
  /\ TablesOK
  /\ stamped \subseteq Ids
  /\ DOMAIN disk \subseteq Seq(Names) /\ \A path \in DOMAIN disk : disk[path] \in File
  /\ broken \subseteq Seq(Names) /\ broken \cap DOMAIN disk = {}
  /\ DOMAIN manifest \subseteq Ids /\ manifest \in [DOMAIN manifest -> ManifestEntry]
  /\ at \in Places
  /\ force \in BOOLEAN /\ calm \in BOOLEAN
  /\ unread \subseteq DOMAIN disk \cup broken
  /\ diffs \in Seq(DiffEntry)
  /\ next \in 1 .. Len(diffs) + 1
  /\ held \in Rows \cup {None}
  /\ edited \in Nat /\ served \in Nat
  /\ foreign \subseteq Ids

Nothing == [x \in {} |-> None]

Init ==
  /\ facets \in Stores
  /\ edges = {}
  /\ minted = Live
  /\ stamped = {}
  /\ disk = Nothing /\ broken = {} /\ manifest = Nothing
  /\ at = "none" /\ force = FALSE /\ unread = {} /\ diffs = <<>> /\ next = 1
  /\ held = None /\ calm = TRUE
  /\ edited = 0 /\ served = 0 /\ foreign = {}

-----------------------------------------------------------------------------
(***************************************************************************)
(* checkout.  One query reads the subtree; its rows come by depth, then by *)
(* age (order).  The root lies at the top, whatever its parent is, and two *)
(* siblings with one slug are told apart by number.                        *)
(***************************************************************************)
Ages(S) == Injection(S, 1 .. Cardinality(S))

Slug(i) == SlugOf[facets[i].cols[Title]]

NameIgnoringSiblings(i, order) == <<Slug(i), 1>>

NameOf(i, order) ==
  LET elder == {j \in DOMAIN order :
                  /\ facets[j].parent = facets[i].parent
                  /\ Slug(j) = Slug(i)
                  /\ order[j] < order[i]}
  IN  <<Slug(i), 1 + Cardinality(elder)>>

PathsUnder(root, order) ==
  LET path[i \in DOMAIN order] ==
        IF i = root THEN <<NameOf(i, order)>>
        ELSE Append(path[facets[i].parent], NameOf(i, order))
  IN  path

(***************************************************************************)
(* render_markdown, and what parse_markdown makes of it.                   *)
(***************************************************************************)
ReadBack(i) == ReadsAs[[c \in Rendered |-> facets[i].cols[c]]]

RenderedFile(i) == [id |-> i, hint |-> facets[i].parent, cols |-> ReadBack(i)]

CheckOut(root) ==
  /\ at = "none"
  /\ at' = "ready"
  /\ \E order \in Ages(Below(facets, {root})) :
       LET path == PathsUnder(root, order)
           legible == {i \in DOMAIN path : ReadBack(i) # None}
       IN  /\ disk' = [p \in {path[i] : i \in legible} |->
                         RenderedFile(CHOOSE i \in DOMAIN path : path[i] = p)]
           /\ broken' = {path[i] : i \in DOMAIN path \ legible}
           /\ manifest' = [i \in DOMAIN path |->
                [path |-> path[i], parent |-> facets[i].parent]]
  /\ UNCHANGED <<facets, edges, minted, stamped, force, unread, diffs, next, held, calm, history>>

(***************************************************************************)
(* The user edits a field of a file, or its id, removes it, moves or       *)
(* copies it elsewhere, writes a new one, or writes something that does    *)
(* not parse.  An id he writes may be that of any facet there ever was, in *)
(* the manifest or not.  A file may go to any directory that a file or the *)
(* manifest names.                                                         *)
(***************************************************************************)
Directories == DOMAIN disk \cup {manifest[i].path : i \in DOMAIN manifest} \cup {<<>>}

FreePaths ==
  ({Append(d, <<s, 1>>) : d \in Directories, s \in Slugs} \cup broken) \ DOMAIN disk

Put(path, file) == [p \in DOMAIN disk \cup {path} |-> IF p = path THEN file ELSE disk[p]]

Without(path) == [p \in DOMAIN disk \ {path} |-> disk[p]]

NoFlush == force' = FALSE /\ unread' = {} /\ diffs' = <<>> /\ next' = 1 /\ held' = None /\ calm' = TRUE

Rewrite(p) ==
  \/ \E c \in Rendered, v \in Texts :
       v # disk[p].cols[c] /\ disk' = [disk EXCEPT ![p].cols[c] = v]
  \/ \E i \in minted \cup {None} :
       i # disk[p].id /\ disk' = [disk EXCEPT ![p].id = i]

WriteAt(q) ==
  /\ broken' = broken \ {q}
  /\ \/ \E p \in DOMAIN disk :
          \/ disk' = [f \in (DOMAIN disk \ {p}) \cup {q} |-> IF f = q THEN disk[p] ELSE disk[f]]
          \/ disk' = Put(q, disk[p])
     \/ \E cols \in [Rendered -> Texts] : disk' = Put(q, [id |-> None, hint |-> None, cols |-> cols])

Edit ==
  /\ at \in {"ready", "flushed"} /\ edited + served < MaxChanges
  /\ at' = "ready" /\ edited' = edited + 1
  /\ \/ \E p \in DOMAIN disk : Rewrite(p) /\ UNCHANGED broken
     \/ \E q \in FreePaths : WriteAt(q)
     \/ \E p \in DOMAIN disk : disk' = Without(p) /\ broken' \in {broken, broken \cup {p}}
     \/ \E q \in FreePaths : broken' = broken \cup {q} /\ UNCHANGED disk
     \/ \E p \in broken : broken' = broken \ {p} /\ UNCHANGED disk
  /\ NoFlush
  /\ UNCHANGED <<tables, stamped, manifest, served, foreign>>

-----------------------------------------------------------------------------
(***************************************************************************)
(* fs_parent_uuid: the id in the file the directory is named after, if     *)
(* there is one that parses and has one, else the facet that was checked   *)
(* out to that file, else none.                                            *)
(***************************************************************************)
FsParent(path) ==
  LET dir == Front(path)
      owners == {i \in DOMAIN manifest : manifest[i].path = dir}
  IN  IF dir \in DOMAIN disk /\ disk[dir].id # None THEN disk[dir].id
      ELSE IF owners # {} THEN CHOOSE i \in owners : TRUE
      ELSE None

Differs(row, file) == \E c \in Compared : row.cols[c] # file.cols[c]

(***************************************************************************)
(* What diff finds for one file, from the store as it is now.              *)
(***************************************************************************)
ConflictingIfGone(i) == i \notin Live

Conflicting(i) == i \notin Live \/ i \in DOMAIN manifest \cap stamped

MovedByPath(path) ==
  disk[path].id \in DOMAIN manifest /\ manifest[disk[path].id].path # path

Moved(path) ==
  LET i == disk[path].id
  IN  \/ i \in DOMAIN manifest /\ manifest[i].path # path
      \/ FsParent(path) # facets[i].parent

Found(path) ==
  LET i == disk[path].id
      e(kind) == <<Entry(kind, i, path, FsParent(path))>>
  IN  CASE i = None -> e("created")
        [] i # None /\ Conflicting(i) -> e("conflict")
        [] OTHER ->
             (IF Moved(path) THEN e("moved") ELSE <<>>)
               \o (IF Differs(facets[i], disk[path]) THEN e("modified") ELSE <<>>)

BeginFlush(f) ==
  /\ at \in {"ready", "flushed"}
  /\ at' = "diff" /\ force' = f /\ calm' = TRUE
  /\ unread' = DOMAIN disk \cup broken /\ diffs' = <<>> /\ next' = 1
  /\ UNCHANGED <<tables, stamped, local, held, history>>

(***************************************************************************)
(* The walk is sorted by path component: the files in directory <p> come   *)
(* before <p>.md.  A file that does not parse ends the diff, and with it   *)
(* the flush, in an error before anything is applied.                      *)
(***************************************************************************)
Reaches(path) ==
  /\ at = "diff"
  /\ path \in unread
  /\ ~\E p \in unread : IsStrictPrefix(path, p)

Compare(path) ==
  /\ Reaches(path) /\ path \in DOMAIN disk
  /\ diffs' = diffs \o Found(path)
  /\ unread' = unread \ {path}
  /\ UNCHANGED <<tables, stamped, local, at, force, next, held, calm, history>>

Stop ==
  /\ at' = "ready"
  /\ NoFlush
  /\ UNCHANGED <<tables, stamped, local, history>>

ParseError(path) == Reaches(path) /\ path \in broken /\ Stop

Unseen == DOMAIN manifest \ {disk[p].id : p \in DOMAIN disk}

EndDiff ==
  /\ at = "diff" /\ unread = {}
  /\ at' = "apply"
  /\ \E gone \in SetToSeqs(Unseen) :
       diffs' = diffs \o [k \in DOMAIN gone |->
                            Entry("deleted", gone[k], manifest[gone[k]].path, None)]
  /\ UNCHANGED <<tables, stamped, local, force, unread, next, held, calm, history>>

-----------------------------------------------------------------------------
(***************************************************************************)
(* flush applies the differences in order.  One that the store refuses is  *)
(* dropped without a word.                                                 *)
(***************************************************************************)
Conflicted == {diffs[k].id : k \in {j \in DOMAIN diffs : diffs[j].kind = "conflict"}}

(***************************************************************************)
(* The difference to apply now.                                            *)
(***************************************************************************)
IsNextRegardless(kind) ==
  at = "apply" /\ next <= Len(diffs) /\ diffs[next].kind = kind

IsNext(kind) ==
  /\ at = "apply" /\ next <= Len(diffs) /\ diffs[next].kind = kind
  /\ ~(~force /\ diffs[next].id \in Conflicted)

Passed ==
  /\ at' = "apply" /\ next' = next + 1 /\ held' = None
  /\ UNCHANGED <<local, force, unread, diffs, calm, history>>

Skip ==
  /\ at = "apply" /\ next <= Len(diffs)
  /\ diffs[next].kind # "created" /\ ~force /\ diffs[next].id \in Conflicted
  /\ Passed
  /\ UNCHANGED <<tables, stamped>>

(***************************************************************************)
(* apply_parsed_to_facet on the row as it is now.                          *)
(***************************************************************************)
Overlaid(row, file) ==
  [row EXCEPT !.cols = [c \in Columns |-> IF c \in Rendered THEN file.cols[c] ELSE row.cols[c]]]

FetchFor(i, path) ==
  IF i \in Live /\ path \in DOMAIN disk
    THEN /\ held' = Overlaid(facets[i], disk[path])
         /\ at' = "write"
         /\ UNCHANGED <<tables, stamped, local, force, unread, diffs, next, calm, history>>
    ELSE Passed /\ UNCHANGED <<tables, stamped>>

FetchModified == IsNext("modified") /\ FetchFor(diffs[next].id, diffs[next].path)

(***************************************************************************)
(* A forced conflict reads the file again, where the manifest has it.      *)
(***************************************************************************)
FetchForced ==
  /\ IsNext("conflict")
  /\ LET i == diffs[next].id
     IN  IF i \in DOMAIN manifest THEN FetchFor(i, manifest[i].path)
         ELSE Passed /\ UNCHANGED <<tables, stamped>>

Stamp(i) == stamped' = stamped \cup {i}

WriteHeld ==
  LET i == diffs[next].id
  IN  /\ at = "write"
      /\ \/ UpdateFacet(i, held) /\ Stamp(i)
         \/ i \notin Live /\ UNCHANGED <<tables, stamped>>
      /\ Passed

ApplyMoved ==
  LET i == diffs[next].id
      parent == diffs[next].parent
  IN  /\ IsNext("moved")
      /\ \/ MoveFacet(i, parent) /\ Stamp(i)
         \/ /\ i \notin Live \/ ~ParentExists(facets, parent)
            /\ UNCHANGED <<tables, stamped>>
      /\ Passed

ApplyDeleted ==
  LET i == diffs[next].id
  IN  /\ IsNext("deleted")
      /\ \/ DeleteFacet(i) /\ UNCHANGED stamped
         \/ i \notin Live /\ UNCHANGED <<tables, stamped>>
      /\ Passed

ApplyCreated ==
  LET path == diffs[next].path
      parent == IF FsParent(path) # None THEN FsParent(path) ELSE disk[path].hint
      row == [parent |-> parent, tenant |-> None,
              cols |-> [c \in Columns |-> IF c \in Rendered THEN disk[path].cols[c] ELSE Unset]]
  IN  /\ IsNext("created")
      /\ \/ \E i \in Ids : CreateFacet(i, row) /\ UNCHANGED stamped
         \/ ~ParentExists(facets, parent) /\ UNCHANGED <<tables, stamped>>
      /\ Passed

EndFlush ==
  /\ at = "apply" /\ next > Len(diffs)
  /\ at' = "flushed"
  /\ UNCHANGED <<tables, stamped, local, force, unread, diffs, next, held, calm, history>>

(***************************************************************************)
(* The caller goes away and the flush stops where it waits.                *)
(***************************************************************************)
Abandon == at \in {"diff", "apply", "write"} /\ Stop

-----------------------------------------------------------------------------
(***************************************************************************)
(* Other callers.  Only the writes that name a facet assign its updated_at:*)
(* the children of a deleted facet become roots under their old one.       *)
(***************************************************************************)
Served(S) ==
  /\ edited + served < MaxChanges
  /\ served' = served + 1
  /\ foreign' = foreign \cup S
  /\ calm' = FALSE
  /\ UNCHANGED <<local, at, force, unread, diffs, next, held, edited>>

ServerUpdate(i, c, v) ==
  /\ UpdateFacet(i, [facets[i] EXCEPT !.cols[c] = v])
  /\ Stamp(i)
  /\ Served({i})

ServerMove(i, parent) ==
  /\ MoveFacet(i, parent)
  /\ Stamp(i)
  /\ Served({i})

ServerDelete(i) ==
  /\ DeleteFacet(i)
  /\ UNCHANGED stamped
  /\ Served({i})

Server ==
  \E i \in Live :
    \/ \E c \in Columns, v \in Values : ServerUpdate(i, c, v)
    \/ \E parent \in Live \cup {None} : ServerMove(i, parent)
    \/ ServerDelete(i)

Flush ==
  \/ \E f \in BOOLEAN : BeginFlush(f)
  \/ \E path \in unread : Compare(path) \/ ParseError(path)
  \/ EndDiff
  \/ Skip
  \/ FetchModified
  \/ FetchForced
  \/ WriteHeld
  \/ ApplyMoved
  \/ ApplyDeleted
  \/ ApplyCreated
  \/ EndFlush

Next ==
  \/ \E root \in Live : CheckOut(root)
  \/ Edit
  \/ Flush
  \/ Abandon
  \/ at # "none" /\ Server

Spec == Init /\ [][Next]_allVars

-----------------------------------------------------------------------------
FlushWrites == at \in {"apply", "write"} /\ served' = served

(***************************************************************************)
(* "If a Conflict is detected and force=false ... the change is not        *)
(* applied": a facet reported as a conflict is left alone by the whole     *)
(* flush, also when a second file bears its id and looked fine.            *)
(***************************************************************************)
ConflictsAreSkipped ==
  [][FlushWrites /\ ~force =>
       \A i \in Conflicted \cap Live :
         /\ i \in DOMAIN facets'
         /\ facets'[i].cols = facets[i].cols
         /\ facets'[i].parent \in {facets[i].parent, None}]_allVars

(***************************************************************************)
(* A flush that met no conflict and no other writer leaves the store as    *)
(* the files say: every file's facet has its fields and hangs where the    *)
(* file lies (unless the facet it lies in is gone: the store refuses that  *)
(* move, and the flush drops it), and the facets whose files are missing   *)
(* are gone.                                                               *)
(***************************************************************************)
Unambiguous ==
  \A p, q \in DOMAIN disk : disk[p].id = disk[q].id /\ disk[p].id # None => p = q

InStore(p) ==
  LET i == disk[p].id
  IN  /\ i \in Live
      /\ ~Differs(facets[i], disk[p])
      /\ FsParent(p) \in Live \cup {None} => facets[i].parent = FsParent(p)

FlushSettles ==
  at = "flushed" /\ calm /\ Conflicted = {} /\ Unambiguous =>
    /\ \A p \in DOMAIN disk : disk[p].id # None => InStore(p)
    /\ Unseen \cap Live = {}

(***************************************************************************)
(* A working copy nobody touched, of a subtree nobody touched, shows       *)
(* differences of two sorts only.  Checkout puts its root at the top       *)
(* whatever parent it has, and diff takes that for a move; and a facet     *)
(* whose fields text cannot hold shows as modified, because diff compares  *)
(* them with what it reads back.  (A flush then makes both real.)  Nothing *)
(* else moved, no file is new, missing or in conflict: every other file    *)
(* lies where fs_parent_uuid finds its parent again, also when the         *)
(* parent's own file does not parse, and no two share a path.              *)
(***************************************************************************)
Untouched == edited = 0 /\ foreign = {} /\ stamped = {}

RootDrift(d) == d.kind = "moved" /\ Len(d.path) = 1 /\ manifest[d.id].parent # None

TextDrift(d) ==
  d.kind = "modified" /\ \E c \in Compared : ReadBack(d.id)[c] # facets[d.id].cols[c]

DriftIsExplained ==
  Untouched => \A k \in DOMAIN diffs : RootDrift(diffs[k]) \/ TextDrift(diffs[k])

(***************************************************************************)
(* "Conflicts are reported (and skipped) unless force=true", as far as the *)
(* code keeps it: a checked-out facet that another caller wrote afterwards *)
(* keeps their contents through a flush that began later, as long as some  *)
(* file still bears its id.  (Without one it is deleted, uncompared; and a *)
(* facet that was not checked out has no updated_at to compare: the file   *)
(* of one whose id the user wrote overwrites it.)                          *)
(***************************************************************************)
Spared(i) == i \in DOMAIN facets' /\ facets'[i].cols = facets[i].cols

FlushSparesForeign ==
  [][FlushWrites /\ ~force /\ calm =>
       \A i \in (foreign \cap Live \cap DOMAIN manifest) \ Unseen : Spared(i)]_allVars
=============================================================================
