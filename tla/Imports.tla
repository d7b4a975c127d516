-------------------------------- MODULE Imports --------------------------------
(***************************************************************************)
(* An import from the upload to the ledger: core/body_limit.py and         *)
(* core/uploads.py on the way in, preview (which parses the file and       *)
(* stores it as a batch) and commit (which parses it again and inserts the *)
(* payments), called twice at the same time.  The file is any sequence of  *)
(* rows, or an export of the ledgers there are.                            *)
(***************************************************************************)
EXTENDS ImportParsers

CONSTANTS Sizes,        \* bound: sizes of an uploaded file, in some unit
          Chunk,        \* bytes that arrive at a time, in that unit
          FileLimit,    \* MAX_IMPORT_SIZE_BYTES
          Overhead,     \* _MULTIPART_OVERHEAD
          Framing,      \* what the multipart framing of the file takes
          LegacyRows,   \* rows of legacy files
          NativeRows,   \* rows of native files
          MaxRows,      \* bound: rows of a file that is not an export
          Ledgers,      \* sequences of ledgers that may be exported
          Existing,     \* accounts a reference may be mapped to
          LastDates,    \* the date their histories end at
          Mappings,     \* functions from Refs to Actions
          Workers       \* bound: commits at a time

Actions == {"unmapped", "skip", "create", "incomplete"} \union Existing

Amounts == Int \union {None}

ExportedLedger ==
  [ref : Refs, name : Seq(Letters) \ {<<>>}, borrow_amount : Int, rate : Int, start_date : Dates,
   payments : Seq([date : Dates, amount : Int, interest : Int])]

ASSUME ImportsAssumption ==
  /\ Sizes \subseteq Nat /\ Chunk \in Nat \ {0} /\ MaxRows \in Nat
  /\ FileLimit \in Nat /\ Overhead \in Nat /\ Framing \in 0..Overhead
  /\ Mappings \subseteq [Refs -> Actions]
  /\ LastDates \in [Existing -> Nat]

(* A reference or date that can be read is one of those there are, and     *)
(* every account has an id of its own.                                     *)
ASSUME FilesAssumption ==
  /\ \A row \in LegacyRows :
       /\ row.ref \in Refs \union {None} /\ row.date \in Dates \union {None}
       /\ row.debito \in Amounts /\ row.credito \in Amounts
  /\ \A row \in NativeRows :
       /\ row.ref \in Refs \union {None} /\ row.date \in Dates \union {None, Blank}
       /\ row.account \in AccountCellSet \union {None}
       /\ row.amount \in Amounts /\ row.interest \in Amounts
  /\ \A of \in Ledgers :
       /\ of \in Seq(ExportedLedger)
       /\ \A i, j \in DOMAIN of : of[i].ref = of[j].ref => i = j

VARIABLES phase,      \* "upload", "parse", then "batch", or "refused"
          upload,     \* the request: its size, what arrived, what was answered
          file,       \* format, shape, the ledgers exported, the rows so far
          parsed,     \* what the parser has made of them
          batch,      \* ImportBatch.status
          tx,         \* the commits that run
          inserted,   \* how often each parsed payment is in the ledger
          last,       \* the date the history of each existing account ends at
          overlapped  \* have two commits of the batch overlapped? (history)

vars == <<phase, upload, file, parsed, batch, tx, inserted, last, overlapped>>

NoFile  == [format |-> None, shape |-> None, of |-> <<>>, rows |-> <<>>]
NoTx    == [at |-> "idle", map |-> None, left |-> {}, new |-> {}]
Arrived == [size |-> 0, received |-> 0, given |-> 0, exceeded |-> FALSE, sent |-> <<>>]

Init == /\ phase = "upload"
        /\ \E n \in Sizes : upload = [Arrived EXCEPT !.size = n + Framing]
        /\ file = NoFile
        /\ parsed = NothingRead
        /\ batch = "none"
        /\ tx = [w \in Workers |-> NoTx]
        /\ inserted = <<>>
        /\ last = LastDates
        /\ overlapped = FALSE

-----------------------------------------------------------------------------
(* The upload. *)

unchangedRest == UNCHANGED <<file, parsed, batch, tx, inserted, last, overlapped>>

(* Broken variant: the body is held to the limit of the file.              *)
LimitOfFile == FileLimit

(* The rule for /admin/imports/preview. *)
Limit == FileLimit + Overhead

Answer(code) == /\ upload' = [upload EXCEPT !.sent = Append(@, code)]
                /\ phase' = "refused"

(* The declared length alone is too much; a chunked body declares none. *)
RefuseDeclared ==
  /\ phase = "upload" /\ upload.received = 0 /\ upload.sent = <<>>
  /\ upload.size > Limit
  /\ Answer(413)
  /\ unchangedRest

(* limited_receive: what is over the limit never reaches the app. *)
Receive ==
  /\ phase = "upload" /\ ~upload.exceeded
  /\ upload.received < upload.size
  /\ LET n == Min({Chunk, upload.size - upload.received})
         over == upload.received + n > Limit
     IN  upload' = [upload EXCEPT !.received = @ + n, !.exceeded = over,
                                  !.given = IF over THEN @ ELSE @ + n]
  /\ UNCHANGED phase /\ unchangedRest

(* The app fails on a truncated body, or answers it with an error of its   *)
(* own: in either case a 413 goes out, once.                               *)
Truncated ==
  /\ phase = "upload" /\ upload.exceeded
  /\ Answer(413)
  /\ unchangedRest

FileSize == upload.size - Framing

(* read_upload_capped on the whole file, the check for an empty file, and  *)
(* _sniff, which finds a parser by the header or refuses.                  *)
Accept(format, shape, of) ==
  /\ phase = "upload" /\ ~upload.exceeded
  /\ upload.received = upload.size
  /\ \/ FileSize > FileLimit /\ Answer(413) /\ unchangedRest
     \/ FileSize = 0 /\ Answer(400) /\ unchangedRest
     \/ /\ FileSize \in 1..FileLimit
        /\ format = None
        /\ Answer(400) /\ unchangedRest
     \/ /\ FileSize \in 1..FileLimit
        /\ format # None
        /\ phase' = "parse"
        /\ upload' = Arrived
        /\ file' = [format |-> format, shape |-> shape, of |-> of, rows |-> <<>>]
        /\ UNCHANGED <<parsed, batch, tx, inserted, last, overlapped>>

-----------------------------------------------------------------------------
(* preview. *)

Export(shape, of) ==
  CASE shape = "accounts" -> export_accounts_csv(of)
    [] shape = "payments" -> export_payments_csv(of)
    [] shape = "full"     -> export_account_full_csv(of[1])

RowAt(i) ==
  IF file.of # <<>>
    THEN {Export(file.shape, file.of)[j] : j \in {i} \intersect DOMAIN Export(file.shape, file.of)}
  ELSE IF i > MaxRows THEN {}
  ELSE IF file.format = "legacy" THEN LegacyRows ELSE NativeRows

NextRow == Len(file.rows) + 1
Line   == NextRow + 1              \* the header is row 1

ReadRow ==
  /\ phase = "parse"
  /\ \E row \in RowAt(NextRow) :
       /\ file' = [file EXCEPT !.rows = Append(@, row)]
       /\ parsed' = IF file.format = "legacy" THEN LegacyRow(parsed, file.shape, Line, row)
                                              ELSE NativeRow(parsed, file.shape, Line, row)
  /\ UNCHANGED <<phase, upload, batch, tx, inserted, last, overlapped>>

EndOfFile ==
  /\ phase = "parse"
  /\ file.of # <<>> => RowAt(NextRow) = {}
  /\ phase' = "batch"
  /\ batch' = "previewed"
  /\ parsed' = IF file.format = "legacy" THEN LegacyEnd(parsed) ELSE parsed
  /\ inserted' = [i \in DOMAIN parsed'.payments |-> 0]
  /\ UNCHANGED <<upload, file, tx, last, overlapped>>

-----------------------------------------------------------------------------
(* commit.  One transaction; the references are done one after the other.  *)

Running(w) == tx[w].at = "run"

PaidRefs == {parsed.payments[i].ref : i \in DOMAIN parsed.payments}

Begin(w, map) ==
  /\ tx' = [tx EXCEPT ![w] = [at |-> "run", map |-> map, left |-> PaidRefs, new |-> {}]]
  /\ overlapped' = (overlapped \/ \E v \in Workers \ {w} : Running(v))
  /\ UNCHANGED <<phase, upload, file, parsed, batch, inserted, last>>

(* Broken variant: a batch may be committed again.                         *)
commit_again(w, map) ==
  /\ phase = "batch"
  /\ ~Running(w)
  /\ Begin(w, map)

commit(w, map) ==
  /\ phase = "batch"
  /\ ~Running(w)
  /\ batch = "previewed"
  /\ Begin(w, map)

(* Where the payments of a reference go: only references with an account   *)
(* row in the file have a place.                                           *)
Target(map, ref) ==
  IF ref \in RefsOf(parsed.accounts) /\ map[ref] \in Existing \union {"create"}
    THEN map[ref] ELSE "none"

StartDate(ref) ==
  parsed.accounts[CHOOSE i \in DOMAIN parsed.accounts : parsed.accounts[i].ref = ref].start_date

(* The end of the history as this transaction sees it. *)
HistoryEnd(w, ref) ==
  LET target == Target(tx[w].map, ref)
      own == {parsed.payments[i].date :
                i \in {j \in tx[w].new : Target(tx[w].map, parsed.payments[j].ref) = target}}
  IN  IF target \in Existing THEN Max({last[target]} \union own) ELSE StartDate(ref)

FirstOf(ref) == Min({i \in DOMAIN parsed.payments : parsed.payments[i].ref = ref})

(* The references are done in the order their first payments are parsed.   *)
(* Payments dated before the history ends are left for the administrator.  *)
ImportRef(w) ==
  /\ Running(w)
  /\ \E ref \in tx[w].left :
       /\ \A other \in tx[w].left : FirstOf(ref) <= FirstOf(other)
       /\ LET fits == {i \in DOMAIN parsed.payments :
                         /\ parsed.payments[i].ref = ref
                         /\ Target(tx[w].map, ref) # "none"
                         /\ parsed.payments[i].date >= HistoryEnd(w, ref)}
          IN  tx' = [tx EXCEPT ![w].left = @ \ {ref}, ![w].new = @ \union fits]
  /\ UNCHANGED <<phase, upload, file, parsed, batch, inserted, last, overlapped>>

EndCommit(w) ==
  /\ Running(w)
  /\ tx[w].left = {}
  /\ batch' = "committed"
  /\ inserted' = [i \in DOMAIN inserted |-> inserted[i] + IF i \in tx[w].new THEN 1 ELSE 0]
  /\ last' = [e \in Existing |->
       Max({last[e]} \union
           {parsed.payments[i].date :
              i \in {j \in tx[w].new : Target(tx[w].map, parsed.payments[j].ref) = e}})]
  /\ tx' = [tx EXCEPT ![w] = NoTx]
  /\ UNCHANGED <<phase, upload, file, parsed, overlapped>>

(* Broken variant: a failure is recorded in the batch.                     *)
RollbackMarked(w) ==
  /\ Running(w)
  /\ batch' = "failed"
  /\ tx' = [tx EXCEPT ![w] = NoTx]
  /\ UNCHANGED <<phase, upload, file, parsed, inserted, last, overlapped>>

(* An error half way: nothing is imported, and the batch can be tried again. *)
Rollback(w) ==
  /\ Running(w)
  /\ tx' = [tx EXCEPT ![w] = NoTx]
  /\ UNCHANGED <<phase, upload, file, parsed, batch, inserted, last, overlapped>>

Next == \/ RefuseDeclared \/ Receive \/ Truncated
        \/ Accept(None, None, <<>>)
        \/ \E header \in {"exact", "accented"} : Accept("legacy", header, <<>>)
        \/ \E shape \in {"accounts", "payments", "full"}, of \in Ledgers \union {<<>>} :
             Accept("native", shape, of)
        \/ ReadRow \/ EndOfFile
        \/ \E w \in Workers :
             \/ \E map \in Mappings : commit(w, map)
             \/ ImportRef(w) \/ EndCommit(w) \/ Rollback(w)

Spec == Init /\ [][Next]_vars

-----------------------------------------------------------------------------
TypeOK ==
  /\ phase \in {"upload", "refused", "parse", "batch"}
  /\ upload.sent \in Seq({400, 413}) /\ upload.exceeded \in BOOLEAN
  /\ batch \in {"none", "previewed", "committed"}
  /\ \A w \in Workers : tx[w].left \subseteq Refs /\ tx[w].new \subseteq DOMAIN parsed.payments
  /\ inserted \in Seq(Nat)
  /\ last \in [Existing -> Nat]

(* An upload is refused with 413 exactly if the file itself is too large,  *)
(* although the middleware counts the framing and the cap on the file does *)
(* not, and never more than the limit is handed to the application         *)
(* (body_limit.py:65-108, uploads.py:10-28, main.py:110-129).              *)
OversizeRefused ==
  /\ upload.given <= Limit
  /\ phase = "refused" => (upload.sent[1] = 413 <=> FileSize > FileLimit)

(* The rows of a file that say the same whatever their order. *)
Readable(row) == file.shape = "exact" /\ row.ref # None /\ row.date # None

Total(ref, date, kind, column) ==
  LET S == {i \in DOMAIN file.rows : LET row == file.rows[i] IN
              Readable(row) /\ row.ref = ref /\ row.date = date /\ row.kind = kind
              /\ row[column] # None}
  IN  IF S = {} THEN None ELSE SumFunction([i \in S |-> file.rows[i][column]])

Disburses(i) == /\ Readable(file.rows[i])
                /\ file.rows[i].kind = "disbursement" /\ file.rows[i].debito # None

(* Row i is the first disbursement of its reference, and its account is    *)
(* there as the row says.                                                  *)
OpensAccount(i) ==
  LET row == file.rows[i] IN
  /\ Disburses(i)
  /\ \A j \in 1..(i - 1) : ~(Disburses(j) /\ file.rows[j].ref = row.ref)
  /\ [ref |-> row.ref, borrow_amount |-> row.debito, start_date |-> row.date,
      rate |-> None, name |-> None] \in ToSet(parsed.accounts)

(* Of a legacy file every amount that can be read ends in the one payment  *)
(* of its reference and date or in the account that its row is the first   *)
(* to disburse, or its row is reported                                     *)
(* (legacy_ledger_csv.py:96-207, base.py:77-81).                           *)
EveryRowAccounted ==
  (phase = "batch" /\ file.format = "legacy") =>
    LET paid == {k \in Keys : Total(k[1], k[2], "payment", "credito") # None}
    IN  /\ Len(parsed.payments) = Cardinality(paid)
        /\ \A k \in paid : \E i \in DOMAIN parsed.payments :
             parsed.payments[i] =
               [ref |-> k[1], date |-> k[2], amount |-> Total(k[1], k[2], "payment", "credito"),
                interest |-> OrZero(Total(k[1], k[2], "interest", "debito"))]
        /\ \A i \in DOMAIN file.rows : LET row == file.rows[i] IN
             \/ i + 1 \in ToSet(parsed.errors)
             \/ OpensAccount(i)
             \/ row.kind \in {"payment", "interest"} /\ <<row.ref, row.date>> \in paid
             \/ \E j \in 1..(i - 1) : row.kind = "interest" /\ j + 1 \in ToSet(parsed.errors)
                                        /\ file.rows[j].ref = row.ref
                                        /\ file.rows[j].date = row.date

(* csv_safety.py: an export reads back as it was.  Names that begin with a *)
(* quote before a formula sign are the exception.                          *)
Quoted(name) == restore_cell(name) # name

SameAccount(a, l) ==
  /\ a.ref = l.ref /\ a.borrow_amount = l.borrow_amount /\ a.rate = l.rate
  /\ a.start_date = l.start_date
  /\ Quoted(l.name) \/ a.name = l.name

SamePayment(p, l, q) ==
  p = [ref |-> l.ref, date |-> q.date, amount |-> q.amount, interest |-> q.interest]

RoundTrip ==
  (phase = "batch" /\ file.of # <<>>) =>
    LET ledgers == IF file.shape = "full" THEN <<file.of[1]>> ELSE file.of
    IN  /\ parsed.errors = <<>>
        /\ file.shape # "payments" =>
             /\ Len(parsed.accounts) = Len(ledgers)
             /\ \A i \in DOMAIN ledgers : SameAccount(parsed.accounts[i], ledgers[i])
        /\ file.shape # "accounts" =>
             /\ Len(parsed.payments)
                  = SumFunction([i \in DOMAIN ledgers |-> Len(ledgers[i].payments)])
             /\ \A i \in DOMAIN ledgers : \A q \in ToSet(ledgers[i].payments) :
                  \E p \in ToSet(parsed.payments) : SamePayment(p, ledgers[i], q)

(* A parsed payment is imported at most once, even if a commit fails and   *)
(* is repeated: only commits of the batch that overlap import it twice     *)
(* (imports/service.py:173).                                               *)
ImportedOnceUnlessOverlapping ==
  overlapped \/ \A i \in DOMAIN inserted : inserted[i] <= 1
=============================================================================
