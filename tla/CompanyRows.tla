---------------------------- MODULE CompanyRows ----------------------------
(***************************************************************************)
(* What a collection of company data from OpenDART leaves in a table: the  *)
(* collect... functions of AdminService.  Each asks for one list, then     *)
(* upserts its items one by one, and an item whose write throws is left    *)
(* out.  The functions differ in the key by which an item finds the row of *)
(* an earlier collection, so this is what the model keeps of an item.      *)
(***************************************************************************)
EXTENDS Naturals, Sequences, SequencesExt

CONSTANTS
  Name,     \* what names an item: a person, a kind of dividend, an event
  Date,     \* its date
  NoDate,   \* the field is empty
  Year,
  Code      \* report codes: 11011, 11012, 11013, 11014

\* saved: the write of this item does not throw.
Item   == [name : Name, date : Date \cup {NoDate}, saved : BOOLEAN]
Report == [year : Year, code : Code]

Keys(rows) == {row.key : row \in rows}

\* One call of prisma.upsert, and whether it is reached and does not throw.
Write(key, item) == [key |-> key, item |-> item, done |-> item.saved, update |-> TRUE]

\* The row with this key, or a new one; "update: {}" leaves the row as it is.
Upsert(rows, w) ==
  IF w.update \/ w.key \notin Keys(rows)
  THEN {row \in rows : row.key # w.key} \cup {[key |-> w.key, item |-> w.item]}
  ELSE rows

\* "for (const item of list) try { upsert } catch { warn }"
Upserts(rows, writes) == FoldLeft(LAMBDA acc, w : IF w.done THEN Upsert(acc, w) ELSE acc, rows, writes)

\* One upsert of what the whole list sums up to; nothing is caught.
UpsertSum(list, key) == IF list = <<>> THEN <<>> ELSE <<Write(key, Last(list))>>

-----------------------------------------------------------------------------
\* What follows are the writes of a collection of the list of report r, the at-th.

\* Mutated form: reportDate, the time of the collection, is part of the key.
CollectExecutivesDated(list, r, at) == [n \in DOMAIN list |-> Write(<<list[n].name, r, at>>, list[n])]

CollectExecutives(list, r, at) == [n \in DOMAIN list |-> Write(<<list[n].name, r>>, list[n])]

CollectOutsideDirectors(list, r, at) == [n \in DOMAIN list |-> Write(<<list[n].name, r>>, list[n])]

CollectMajorShareholders(list, r, at) == [n \in DOMAIN list |-> Write(<<list[n].name, r>>, list[n])]

\* Filed under the year of the collection, whatever the report.
CollectLargeHoldings(list, r, at) == [n \in DOMAIN list |-> Write(<<list[n].name, "majorstock">>, list[n])]

CollectDividends(list, r, at) == [n \in DOMAIN list |-> Write(<<list[n].name, r>>, list[n])]

CollectEmployees(list, r, at) == UpsertSum(list, r)

\* All items of a report share a key: the last one written stays.
CollectAuditOpinion(list, r, at) == [n \in DOMAIN list |-> Write(r, list[n])]

\* "new Date()", of the n-th item, when the item has none.
Dated(date, at, n) == IF date = NoDate THEN <<at, n>> ELSE date

\* The year is not in the key; an undated change is dated at this moment.
CollectCapitalChanges(list, r, at) ==
  [n \in DOMAIN list |-> Write(<<list[n].name, Dated(list[n].date, at, n), r.code>>, list[n])]

\* An undated transaction is looked for at this moment and created undated, so
\* that its row is never found again.
CollectTreasuryStock(list, r, at) ==
  [n \in DOMAIN list |-> Write(<<list[n].name, Dated(list[n].date, at, n), r.code>>, list[n])]

\* prisma.insiderTrading.create, into a table without a unique key.
CollectInsiderTrading(list, r, at) == [n \in DOMAIN list |-> Write(<<at, n>>, list[n])]

Quarter == [c \in {"11011", "11012", "11013", "11014"} |->
  CASE c = "11011" -> "4Q" [] c = "11012" -> "2Q" [] c = "11013" -> "1Q" [] c = "11014" -> "3Q"]

CollectFinancialSummary(list, r, at) ==
  UpsertSum(list, <<r.year, IF r.code \in DOMAIN Quarter THEN Quarter[r.code] ELSE "4Q">>)

\* The row of an event is created once and never updated; the first write that
\* throws ends the collection.
CollectMajorEvents(list, r, at) ==
  [n \in DOMAIN list |-> [Write(<<list[n].name, list[n].date>>, list[n]) EXCEPT
                            !.done = \A m \in 1..n : list[m].saved, !.update = FALSE]]

Table == {"executives", "outsideDirectors", "majorShareholders", "largeHoldings", "dividends",
          "employees", "auditOpinions", "capitalChanges", "treasuryStocks", "insiderTradings",
          "financialSummaries", "majorEvents"}

Writes(t, list, r, at) ==
  CASE t = "executives"         -> CollectExecutives(list, r, at)
    [] t = "outsideDirectors"   -> CollectOutsideDirectors(list, r, at)
    [] t = "majorShareholders"  -> CollectMajorShareholders(list, r, at)
    [] t = "largeHoldings"      -> CollectLargeHoldings(list, r, at)
    [] t = "dividends"          -> CollectDividends(list, r, at)
    [] t = "employees"          -> CollectEmployees(list, r, at)
    [] t = "auditOpinions"      -> CollectAuditOpinion(list, r, at)
    [] t = "capitalChanges"     -> CollectCapitalChanges(list, r, at)
    [] t = "treasuryStocks"     -> CollectTreasuryStock(list, r, at)
    [] t = "insiderTradings"    -> CollectInsiderTrading(list, r, at)
    [] t = "financialSummaries" -> CollectFinancialSummary(list, r, at)
    [] t = "majorEvents"        -> CollectMajorEvents(list, r, at)

Collect(t, rows, list, r, at) == Upserts(rows, Writes(t, list, r, at))

-----------------------------------------------------------------------------
VARIABLES table, list, report, amended, amendedReport

vars == <<table, list, report, amended, amendedReport>>

\* One list, then another one (of this report or of another), then the first again.
Init ==
  /\ table \in Table
  /\ list \in BoundedSeq(Item, 2) /\ report \in Report
  /\ amended \in BoundedSeq(Item, 1) /\ amendedReport \in Report

Spec == Init /\ [][FALSE]_vars

First  == Collect(table, {}, list, report, 1)
Second == Collect(table, First, amended, amendedReport, 2)
Third  == Collect(table, Second, list, report, 3)

Undated == \E n \in DOMAIN list : list[n].date = NoDate

\* However often a report is collected again within a year, by whatever tries or
\* clicks, and whatever was collected in between, no row is added to those of
\* the first time.
\* Not so, because no key finds the row again: insider trades, and undated
\* capital changes and treasury transactions (admin.service.ts:1747, 1593, 1676).
RecollectionAddsNoRow ==
  \/ table = "insiderTradings"
  \/ table \in {"capitalChanges", "treasuryStocks"} /\ Undated
  \/ Keys(Third) = Keys(Second)

\* "May fail on duplicate - that's OK" (admin.service.ts:1763): an insider trade
\* that is collected again has no second row.
InsiderRowsOnce == table = "insiderTradings" => Keys(Third) = Keys(Second)
=============================================================================
