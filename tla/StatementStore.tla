--------------------------- MODULE StatementStore ---------------------------
(***************************************************************************)
(* CPF and Endowus statements: their uploads, the balances they bring and  *)
(* the deletion of a bad import.  Statements overlap: two that start on    *)
(* the same day report the same opening balances, and the table keeps one  *)
(* row for the two, under the upload that came first.                      *)
(*                                                                         *)
(* Transactions and holdings are inserted and deleted by the same two      *)
(* statements as balances, which stand for the three tables.               *)
(***************************************************************************)
EXTENDS Naturals, FiniteSets

CONSTANTS
  Files,       \* statement files, told apart by their hash
  Externals,   \* the external accounts
  AccountOf,   \* the account a file is uploaded for
  CurrencyOf,  \* the currency of a file's balances
  Categories,  \* what a balance is of: a CPF sub-account, an Endowus goal
  Reports,     \* the balances in a file: [<<day, category>> -> amount]
  Currencies,
  Uploaders,   \* requests that upload
  None

ASSUME FilesAreTyped ==
  /\ AccountOf \in [Files -> Externals]
  /\ CurrencyOf \in [Files -> Currencies]
  /\ None \notin Files /\ None \notin Currencies

KeysOf(f) == DOMAIN Reports[f]

ASSUME ReportsAreTyped ==
  \A f \in Files : /\ KeysOf(f) \subseteq Nat \X Categories /\ IsFiniteSet(KeysOf(f))
                  /\ \A k \in KeysOf(f) : Reports[f][k] \in Nat

VARIABLES
  uploads,    \* the files with a StatementUpload row
  balances,   \* external_balances: what is reported, and the upload that brought it
  base,       \* an external account's base_currency, None before its first upload
  uploading,  \* an upload that has passed the duplicate check and is parsed
  orphaned    \* history: rows of kept statements that went with another's deletion

storeVars == <<uploads, balances, base, uploading, orphaned>>

Rows(f) == {[account |-> AccountOf[f], key |-> k, from |-> f] : k \in KeysOf(f)}

AllRows == UNION {Rows(f) : f \in Files}

Amount(r) == Reports[r.from][r.key]
Day(r) == r.key[1]
Category(r) == r.key[2]

\* Types, with the foreign keys of external_balances.
StoreTypeOK ==
  /\ uploads \subseteq Files
  /\ balances \subseteq AllRows
  /\ base \in [Externals -> Currencies \cup {None}]
  /\ uploading \in [Uploaders -> Files \cup {None}]
  /\ orphaned \subseteq AllRows
  /\ \A r \in balances : r.from \in uploads /\ base[r.account] # None

StoreInit ==
  /\ uploads = {}
  /\ balances = {}
  /\ base = [a \in Externals |-> None]
  /\ uploading = [w \in Uploaders |-> None]
  /\ orphaned = {}

\* The file is not known by its hash, and it parses to some rows.
UploadChecks(w, f) ==
  /\ uploading[w] = None /\ f \notin uploads
  /\ KeysOf(f) # {}
  /\ uploading' = [uploading EXCEPT ![w] = f]
  /\ UNCHANGED <<uploads, balances, base, orphaned>>

\* _ensure_account keeps the account's first currency.
EnsureAccount(f) ==
  base' = IF base[AccountOf[f]] = None
          THEN [base EXCEPT ![AccountOf[f]] = CurrencyOf[f]] ELSE base

SameBalance(r, s) == r.account = s.account /\ r.key = s.key

\* Mutant: an overlap keeps all of the file's rows out.
InsertsAllOrNone(f) ==
  balances' = IF \E r \in Rows(f), s \in balances : SameBalance(r, s)
              THEN balances ELSE balances \cup Rows(f)

\* INSERT .. ON CONFLICT DO NOTHING, row by row.
InsertsIgnoring(f) ==
  balances' = balances \cup {r \in Rows(f) : \A s \in balances : ~SameBalance(r, s)}

\* Insert and commit.  The unique hash refuses a file that another request
\* has uploaded since the check, and the transaction is rolled back.
UploadCommits(w) ==
  LET f == uploading[w] IN
  /\ f # None
  /\ uploading' = [uploading EXCEPT ![w] = None]
  /\ IF f \in uploads
     THEN UNCHANGED <<uploads, balances, base, orphaned>>
     ELSE /\ uploads' = uploads \cup {f}
          /\ InsertsIgnoring(f)
          /\ EnsureAccount(f)
          /\ orphaned' = orphaned \ Rows(f)

\* Mutant: the upload goes and its balances stay.
DeletesUpload(f) ==
  /\ f \in uploads
  /\ uploads' = uploads \ {f}
  /\ UNCHANGED <<balances, base, uploading, orphaned>>

\* delete_statement: the rows the upload brought, then the upload.
Deletes(f) ==
  /\ f \in uploads
  /\ balances' = {r \in balances : r.from # f}
  /\ uploads' = uploads \ {f}
  /\ orphaned' = (orphaned \ Rows(f)) \cup
       {r \in AllRows : r.from \in uploads \ {f} /\ \E s \in balances : s.from = f /\ SameBalance(r, s)}
  /\ UNCHANGED <<base, uploading>>

StoreNext ==
  \/ \E w \in Uploaders : UploadCommits(w) \/ \E f \in Files : UploadChecks(w, f)
  \/ \E f \in Files : Deletes(f)
=============================================================================
