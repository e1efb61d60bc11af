----------------------------- MODULE SearchIndex -----------------------------
(***************************************************************************)
(* FacetStore with its full-text index: the facets_fts table, the three    *)
(* triggers that feed it, and SqliteStore::search.                         *)
(*                                                                         *)
(* facets_fts is an external-content FTS5 table: it keeps, per document    *)
(* number, the terms it was given, and reads every other column back from  *)
(* the facets row whose rowid is that number.  The triggers name no rowid, *)
(* so an insertion numbers its document by itself, one above the highest   *)
(* it has, and a 'delete' command without a rowid removes nothing.         *)
(*                                                                         *)
(* The text of a facet is one term here, the value of its Text column.     *)
(***************************************************************************)
EXTENDS FacetStore, Sequences, Functions, FiniteSetsExt

CONSTANTS
  Text,     \* the indexed column (title and body, as one term)
  MaxDocs   \* bound: how many documents TLC lets the index hold

ASSUME TextAssumption == Text \in Columns /\ MaxDocs \in Nat

VARIABLES
  rowid,    \* facets.rowid of every live row
  docs      \* the index: docs[d] is the term of document d

indexVars == <<facets, edges, minted, rowid, docs>>

IndexInit == StoreInit /\ rowid = [i \in {} |-> 0] /\ docs = <<>>

TermOf(row) == row.cols[Text]

(***************************************************************************)
(* SQLite numbers a row of a table without AUTOINCREMENT one above the     *)
(* highest number in use.                                                  *)
(***************************************************************************)
NextRowidByCount == 1 + Cardinality(Live)

NextRowid == 1 + Max({0} \cup Range(rowid))

(***************************************************************************)
(* The triggers facets_ai and facets_au.  facets_ad, and the first half of *)
(* facets_au, issue the 'delete' command that removes nothing.             *)
(***************************************************************************)
AfterInsert(row) == docs' = Append(docs, TermOf(row))

UntriggeredUpdate(row) == docs' = docs

AfterUpdate(row) == docs' = Append(docs, TermOf(row))

(***************************************************************************)
(* The statements, each with the trigger that runs inside it.  Moving a    *)
(* facet is an UPDATE too.                                                 *)
(***************************************************************************)
IndexedCreate(id, row) ==
  /\ CreateFacet(id, row)
  /\ rowid' = [i \in Live \cup {id} |-> IF i = id THEN NextRowid ELSE rowid[i]]
  /\ AfterInsert(row)

IndexedUpdate(id, row) ==
  /\ UpdateFacet(id, row)
  /\ AfterUpdate(row)
  /\ UNCHANGED rowid

IndexedMove(id, parent) ==
  /\ MoveFacet(id, parent)
  /\ AfterUpdate(facets[id])
  /\ UNCHANGED rowid

(***************************************************************************)
(* ON DELETE SET NULL updates each child, which fires facets_au once per   *)
(* child, in the order of their row numbers.                               *)
(***************************************************************************)
Reindexed(S) ==
  [k \in 1 .. Cardinality(S) |->
     TermOf(facets[CHOOSE i \in S : Cardinality({j \in S : rowid[j] < rowid[i]}) = k - 1])]

IndexedDelete(id) ==
  /\ DeleteFacet(id)
  /\ docs' = docs \o Reindexed(Children(facets, {id}) \ {id})
  /\ rowid' = [i \in Live \ {id} |-> rowid[i]]

IndexNext ==
  /\ \/ \E id \in Ids, row \in Rows : IndexedCreate(id, row) \/ IndexedUpdate(id, row)
     \/ \E id \in Ids, parent \in Parents : IndexedMove(id, parent)
     \/ \E id \in Ids : IndexedDelete(id)
  /\ Len(docs') <= MaxDocs

IndexSpec == IndexInit /\ [][IndexNext]_indexVars

(***************************************************************************)
(* SqliteStore::search.  A document whose number is no row's rowid makes   *)
(* FTS5 report a malformed database, and the call fails as a whole.        *)
(***************************************************************************)
Matches(term) == {d \in DOMAIN docs : docs[d] = term}

SearchFails(term) == \E d \in Matches(term) : \A i \in Live : rowid[i] # d

Search(term) == {i \in Live : rowid[i] \in Matches(term)}

Holding(term) == {i \in Live : TermOf(facets[i]) = term}

IndexTypeOK ==
  /\ TablesOK
  /\ docs \in Seq(Values)
  /\ rowid \in [Live -> Nat \ {0}]
  /\ IsInjective(rowid)

(***************************************************************************)
(* The index holds the term of every live row under some document number:  *)
(* a search for it fails or finds a facet, it is never silently empty.     *)
(***************************************************************************)
LiveTermsAreIndexed == \A i \in Live : Matches(TermOf(facets[i])) # {}

(***************************************************************************)
(* While the database has only ever seen insertions (as many documents as  *)
(* rows) search is exact.                                                  *)
(***************************************************************************)
SearchExact ==
  \A term \in Values : ~SearchFails(term) /\ Search(term) = Holding(term)

InsertsOnlyIsExact == Len(docs) = Cardinality(Live) => SearchExact
=============================================================================
