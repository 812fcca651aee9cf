------------------------------ MODULE ReaderProofs ------------------------------
(***************************************************************************)
(* That reads are authenticated and of one block, that listings are whole  *)
(* and that only authentications in flight are shared; that no read waits  *)
(* for nothing, and that none goes back: for any reads, any lists, page    *)
(* sizes and blocks, and any order of answers.                             *)
(***************************************************************************)
EXTENDS ReaderProperties, SequenceTheorems, TLAPS

\* A read that waits for no authentication yet; one that had its answer.
Unjoined == {"idle", "header"}
Admitted == {"raw", "count", "page", "done"}

ReaderTypeOK ==
    /\ pinned \in BOOLEAN /\ tip \in Block
    /\ wrong \in [Block -> SUBSET Query] /\ members \in [Block -> Lists]
    /\ authenticating \in [Block -> Read \cup {None}]
    /\ unanswered \in [Read -> SUBSET Query] /\ mismatch \in [Read -> BOOLEAN]
    /\ decision \in [Read -> {None, "accepted", "rejected"}]
    /\ settled \in [Read -> BOOLEAN]
    /\ stage \in [Read -> Stage] /\ block \in [Read -> Block \cup {None}]
    /\ via \in [Read -> Read \cup {None}]
    /\ got \in [Read -> [Part -> Block \cup {None}]]
    /\ count \in [Read -> Nat] /\ addresses \in [Read -> Seq(Address)]
    /\ \A r \in Read :
          /\ stage[r] \in {"count", "page"} => r \in Listing
          /\ stage[r] = "raw" => r \notin Listing

\* Who waits for which authentication: one that belongs to the block of the
\* read, and that was begun by the read it is named after.
Joins ==
    \A r \in Read :
        /\ stage[r] \in Unjoined => via[r] = None
        /\ stage[r] \in Admitted \cup {"authenticate"} => via[r] # None
        /\ via[r] # None =>
              /\ via[via[r]] = via[r]
              /\ block[r] \in Block /\ block[via[r]] = block[r]
        /\ unanswered[r] # Query \/ decision[r] # None => via[r] = r
        /\ settled[r] => decision[r] # None

\* The map holds the authentications in flight, each at its block.
Flying ==
    \A b \in Block :
        LET x == authenticating[b]
        IN  x # None => via[x] = x /\ block[x] = b /\ ~settled[x]

\* What an authentication has seen of its block.
Verdicts ==
    \A x \in Read :
        /\ decision[x] = "accepted" => unanswered[x] = {}
        /\ pinned /\ via[x] = x /\ decision[x] # "rejected" =>
              \A q \in Query \ unanswered[x] : q \in wrong[block[x]] => mismatch[x]
        /\ pinned /\ decision[x] = "accepted" => wrong[block[x]] = {}

\* What a read has got.
Values ==
    \A r \in Read :
        /\ stage[r] \in Admitted => decision[via[r]] = "accepted"
        /\ \A p \in Part : got[r][p] # None =>
              stage[r] \notin Unjoined /\ (pinned => got[r][p] = block[r])
        /\ stage[r] = "done" /\ r \notin Listing => \A p \in parts(r) : got[r][p] # None

\* What a listing has so far.
Distinct(s) == \A i, j \in 1 .. Len(s) : s[i] = s[j] => i = j
Pages ==
    \A r \in Listing :
        /\ stage[r] \in Unjoined \cup {"authenticate", "count"} => addresses[r] = << >>
        /\ stage[r] \in {"page", "done"} =>
              /\ Distinct(addresses[r])
              /\ stage[r] = "done" => Len(addresses[r]) = count[r]
              /\ pinned =>
                    /\ count[r] = Len(members[block[r]])
                    /\ Len(addresses[r]) <= count[r]
                    /\ \A i \in 1 .. Len(addresses[r]) :
                          addresses[r][i] = members[block[r]][i]

ReaderInv == ReaderTypeOK /\ Joins /\ Flying /\ Verdicts /\ Values /\ Pages

LEMMA ReaderInit == Init => ReaderInv
<1> SUFFICES ASSUME Init PROVE ReaderInv
  OBVIOUS
<1> USE ReaderAssumption DEF Init
<1>1. ReaderTypeOK
  <2>1. pinned \in BOOLEAN
    OBVIOUS
  <2>2. wrong \in [Block -> SUBSET Query]
    <3> DEFINE S == IF pinned THEN {{}} \cup {{q} : q \in Query} ELSE {{}}
    <3>1. S \subseteq SUBSET Query
      OBVIOUS
    <3>2. wrong \in [Block -> S]
      OBVIOUS
    <3> HIDE DEF S
    <3> QED
      BY <3>1, <3>2
  <2>3. addresses \in [Read -> Seq(Address)]
    <3>1. << >> \in Seq(Address)
      OBVIOUS
    <3> QED
      BY <3>1
  <2>4. unanswered \in [Read -> SUBSET Query] /\ mismatch \in [Read -> BOOLEAN]
        /\ settled \in [Read -> BOOLEAN]
    OBVIOUS
  <2> QED
    BY <2>1, <2>2, <2>3, <2>4 DEF ReaderTypeOK, Block, Stage
<1>2. Joins /\ Flying
  BY DEF Joins, Flying, Unjoined, Admitted
<1>3. Verdicts
  BY DEF Verdicts
<1>4. Values
  BY DEF Values, Admitted
<1>5. Pages
  BY DEF Pages, Unjoined, Read
<1> QED
  BY <1>1, <1>2, <1>3, <1>4, <1>5 DEF ReaderInv
-----------------------------------------------------------------------------
(* Authentications.                                                        *)

\* An answer or a failure of one query.
LEMMA ReaderAsked ==
    ASSUME ReaderInv, NEW x \in Read, NEW q \in Query,
           QueryAnswered(x, q) \/ QueryFails(x, q)
    PROVE  ReaderInv'
<1> USE ReaderAssumption
<1>1. /\ UNCHANGED <<pinned, tip, wrong, members, authenticating, settled, stage, block, via,
                     got, count, addresses>>
      /\ q \in unanswered[x] /\ via[x] = x
      /\ unanswered' = [unanswered EXCEPT ![x] = @ \ {q}]
  <2>1. PICK r \in Read : x = via[r]
    BY DEF QueryAnswered, QueryFails, Asking
  <2>2. x # None
    OBVIOUS
  <2> QED
    BY <2>1, <2>2 DEF QueryAnswered, QueryFails, chain, results, ReaderInv, Joins
<1>2. /\ \A y \in Read \ {x} : decision'[y] = decision[y] /\ mismatch'[y] = mismatch[y]
      /\ mismatch'[x] \in BOOLEAN /\ (mismatch[x] => mismatch'[x])
      /\ decision[x] # None => decision'[x] \in {decision[x], "rejected"}
      /\ decision'[x] \in {None, "accepted", "rejected"}
      /\ mismatch' \in [Read -> BOOLEAN] /\ decision' \in [Read -> {None, "accepted", "rejected"}]
  <2>1. /\ mismatch \in [Read -> BOOLEAN]
        /\ decision \in [Read -> {None, "accepted", "rejected"}]
    BY DEF ReaderInv, ReaderTypeOK
  <2>2. CASE QueryAnswered(x, q)
    <3>1. PICK b \in answered_at(block[x]) :
             /\ mismatch' = [mismatch EXCEPT ![x] = @ \/ q \in wrong[b]]
             /\ decision' = [decision EXCEPT
                   ![x] = verdict(x, unanswered[x] \ {q}, q \in wrong[b])]
      BY <2>2 DEF QueryAnswered
    <3>2. /\ decision[x] # None => decision'[x] = decision[x]
          /\ decision'[x] \in {None, "accepted", "rejected"}
      BY <2>1, <3>1 DEF verdict
    <3>3. mismatch'[x] = (mismatch[x] \/ q \in wrong[b])
      BY <2>1, <3>1
    <3>4. mismatch' \in [Read -> BOOLEAN]
      BY <2>1, <3>1
    <3>5. decision' \in [Read -> {None, "accepted", "rejected"}]
      BY <2>1, <3>1, <3>2
    <3> QED
      BY <2>1, <3>1, <3>2, <3>3, <3>4, <3>5
  <2>3. CASE QueryFails(x, q)
    BY <2>1, <2>3 DEF QueryFails
  <2> QED
    BY <2>2, <2>3
<1>3. decision[x] # "accepted"
  BY <1>1 DEF ReaderInv, Verdicts
<1>4. decision'[x] = "accepted" => unanswered'[x] = {}
  BY <1>1, <1>3 DEF QueryAnswered, QueryFails, verdict, ReaderInv, ReaderTypeOK
<1>5. ASSUME pinned, decision'[x] # "rejected"
      PROVE  /\ \A p \in Query \ unanswered'[x] : p \in wrong[block[x]] => mismatch'[x]
             /\ decision'[x] = "accepted" => wrong[block[x]] = {}
  <2>1. QueryAnswered(x, q)
    BY <1>5 DEF QueryFails, ReaderInv, ReaderTypeOK
  <2>2. /\ mismatch'[x] = (mismatch[x] \/ q \in wrong[block[x]])
        /\ decision'[x] = verdict(x, unanswered[x] \ {q}, q \in wrong[block[x]])
    BY <1>5, <2>1 DEF QueryAnswered, answered_at, ReaderInv, ReaderTypeOK
  <2>3. decision[x] = None
    BY <1>3, <1>5, <2>2 DEF verdict, ReaderInv, ReaderTypeOK
  <2>4. \A p \in Query \ unanswered[x] : p \in wrong[block[x]] => mismatch[x]
    BY <1>1, <1>5, <2>3 DEF ReaderInv, Verdicts
  <2>5. unanswered'[x] = unanswered[x] \ {q}
    BY <1>1 DEF ReaderInv, ReaderTypeOK
  <2>6. \A p \in Query \ unanswered'[x] : p \in wrong[block[x]] => mismatch'[x]
    BY <2>2, <2>4, <2>5
  <2>7. ASSUME decision'[x] = "accepted" PROVE wrong[block[x]] = {}
    <3>1. unanswered'[x] = {} /\ ~mismatch[x] /\ ~(q \in wrong[block[x]])
      BY <2>2, <2>3, <2>7, <1>4 DEF verdict
    <3>2. wrong[block[x]] \subseteq Query
      BY <1>1 DEF ReaderInv, ReaderTypeOK, Joins
    <3> QED
      BY <2>4, <2>5, <3>1, <3>2
  <2> QED
    BY <2>6, <2>7
<1>6. ReaderTypeOK'
  BY <1>1, <1>2 DEF ReaderInv, ReaderTypeOK
<1>7. Joins' /\ Flying'
  BY <1>1, <1>2 DEF ReaderInv, ReaderTypeOK, Joins, Flying
<1>8. Verdicts'
  <2>1. ASSUME NEW y \in Read, y # x PROVE unanswered'[y] = unanswered[y]
    BY <1>1, <2>1 DEF ReaderInv, ReaderTypeOK
  <2> SUFFICES
        ASSUME NEW y \in Read
        PROVE  /\ decision'[y] = "accepted" => unanswered'[y] = {}
               /\ pinned /\ via[y] = y /\ decision'[y] # "rejected" =>
                     \A p \in Query \ unanswered'[y] : p \in wrong[block[y]] => mismatch'[y]
               /\ pinned /\ decision'[y] = "accepted" => wrong[block[y]] = {}
    BY <1>1 DEF Verdicts
  <2>2. CASE y = x
    BY <1>4, <1>5, <2>2
  <2>3. CASE y # x
    BY <1>2, <2>1, <2>3 DEF ReaderInv, Verdicts
  <2> QED
    BY <2>2, <2>3
<1>9. Values'
  <2>1. \A y \in Read : decision[y] = "accepted" => decision'[y] = "accepted"
    BY <1>2, <1>3
  <2>2. \A r \in Read : stage[r] \in Admitted => via[r] \in Read
    BY DEF ReaderInv, ReaderTypeOK, Joins
  <2> QED
    BY <1>1, <2>1, <2>2 DEF ReaderInv, Values, Unjoined, parts
<1>10. Pages'
  BY <1>1 DEF ReaderInv, Pages
<1> QED
  BY <1>6, <1>7, <1>8, <1>9, <1>10 DEF ReaderInv

LEMMA ReaderSettled == ASSUME ReaderInv, NEW x \in Read, Settle(x) PROVE ReaderInv'
<1> USE ReaderAssumption
<1>1. /\ UNCHANGED <<pinned, tip, wrong, members, unanswered, mismatch, decision, stage, block,
                     via, got, count, addresses>>
      /\ decision[x] # None /\ settled' = [settled EXCEPT ![x] = TRUE]
      /\ authenticating' = [authenticating EXCEPT ![block[x]] = None]
  BY DEF Settle, wakes, remaining, chain, results
<1>2. ReaderTypeOK'
  BY <1>1 DEF ReaderInv, ReaderTypeOK
<1>3. Joins'
  BY <1>1 DEF ReaderInv, ReaderTypeOK, Joins
<1>4. Flying'
  BY <1>1 DEF ReaderInv, ReaderTypeOK, Flying
<1>5. Verdicts' /\ Values' /\ Pages'
  BY <1>1 DEF ReaderInv, Verdicts, Values, Pages, parts
<1> QED
  BY <1>2, <1>3, <1>4, <1>5 DEF ReaderInv
-----------------------------------------------------------------------------
(* Reads.                                                                  *)

\* A read joins the authentication of its block.
LEMMA ReaderJoins ==
    ASSUME ReaderInv, NEW r \in Read, NEW b \in Block,
           stage[r] \in Unjoined, stage' = [stage EXCEPT ![r] = "authenticate"],
           block' = [block EXCEPT ![r] = b], Authenticate(r, b),
           UNCHANGED <<pinned, tip, wrong, members, unanswered, mismatch, decision,
                       settled, got, count, addresses>>
    PROVE  ReaderInv'
<1> USE ReaderAssumption
<1> DEFINE x == IF authenticating[b] # None THEN authenticating[b] ELSE r
<1>1. /\ via' = [via EXCEPT ![r] = x]
      /\ authenticating' = [authenticating EXCEPT ![b] = x]
  BY DEF Authenticate, ReaderInv, ReaderTypeOK
<1>2. /\ x \in Read /\ via[r] = None /\ decision[r] = None /\ unanswered[r] = Query
      /\ ~settled[r] /\ ~settled[x] /\ r # None
  BY DEF ReaderInv, ReaderTypeOK, Joins, Flying
<1>3. via'[x] = x /\ via'[r] = x /\ block'[x] = b /\ block'[r] = b
  BY <1>1, <1>2 DEF ReaderInv, ReaderTypeOK, Flying
<1>4. /\ \A y \in Read \ {r} : /\ via'[y] = via[y] /\ block'[y] = block[y]
                               /\ stage'[y] = stage[y] /\ via[y] # r
      /\ stage'[r] = "authenticate"
      /\ \A c \in Block : c # b => authenticating'[c] = authenticating[c]
      /\ authenticating'[b] = x
      /\ \A c \in Block : authenticating[c] # r
  BY <1>1, <1>2 DEF ReaderInv, ReaderTypeOK, Joins, Flying
<1> HIDE DEF x
<1>5. ReaderTypeOK'
  BY <1>1, <1>2 DEF ReaderInv, ReaderTypeOK, Stage
<1>6. Joins'
  BY <1>2, <1>3, <1>4 DEF ReaderInv, ReaderTypeOK, Joins, Unjoined, Admitted
<1>7. Flying'
  <2>1. ASSUME NEW c \in Block, authenticating'[c] # None
        PROVE  /\ via'[authenticating'[c]] = authenticating'[c]
               /\ block'[authenticating'[c]] = c /\ ~settled[authenticating'[c]]
    <3>1. CASE c = b
      BY <1>2, <1>3, <1>4, <3>1
    <3>2. CASE c # b
      <4>1. authenticating'[c] = authenticating[c] /\ authenticating[c] \in Read \ {r}
        BY <1>4, <2>1, <3>2 DEF ReaderInv, ReaderTypeOK
      <4> QED
        BY <1>4, <2>1, <4>1 DEF ReaderInv, Flying
    <3> QED
      BY <3>1, <3>2
  <2> QED
    BY <2>1 DEF Flying
<1>8. Verdicts'
  <2>1. ASSUME NEW y \in Read, y # r PROVE
            /\ decision[y] = "accepted" => unanswered[y] = {}
            /\ pinned /\ via'[y] = y /\ decision[y] # "rejected" =>
                 \A q \in Query \ unanswered[y] : q \in wrong[block'[y]] => mismatch[y]
            /\ pinned /\ decision[y] = "accepted" => wrong[block'[y]] = {}
    BY <1>4, <2>1 DEF ReaderInv, Verdicts
  <2>2. decision[r] # "accepted" /\ Query \ unanswered[r] = {}
    BY <1>2
  <2> QED
    BY <2>1, <2>2 DEF Verdicts
<1>9. Values'
  BY <1>2, <1>4 DEF ReaderInv, Values, Unjoined, Admitted, parts
<1>10. Pages'
  BY <1>4 DEF ReaderInv, Pages, Unjoined, Read
<1> QED
  BY <1>5, <1>6, <1>7, <1>8, <1>9, <1>10 DEF ReaderInv

\* A read ends without a result.
LEMMA ReaderFails ==
    ASSUME ReaderInv, NEW r \in Read, stage' = [stage EXCEPT ![r] = "failed"],
           UNCHANGED <<pinned, tip, wrong, members, authenticating, unanswered, mismatch,
                       decision, settled, block, via, got, count, addresses>>
    PROVE  ReaderInv'
<1> USE ReaderAssumption
<1>1. /\ \A y \in Read \ {r} : stage'[y] = stage[y]
      /\ stage'[r] = "failed"
  BY DEF ReaderInv, ReaderTypeOK
<1>2. ReaderTypeOK'
  BY <1>1 DEF ReaderInv, ReaderTypeOK, Stage
<1>3. Joins' /\ Flying' /\ Verdicts'
  BY <1>1 DEF ReaderInv, Joins, Flying, Verdicts, Unjoined, Admitted
<1>4. Values' /\ Pages'
  BY <1>1 DEF ReaderInv, Values, Pages, Unjoined, Admitted, parts, Read
<1> QED
  BY <1>2, <1>3, <1>4 DEF ReaderInv

LEMMA ReaderBegins ==
    ASSUME ReaderInv, NEW r \in Read,
           \/ \E b \in Block : Begin(r, b)
           \/ \E b \in Block \cup {None} : BeginSnapshot(r, b)
           \/ Header(r)
    PROVE  ReaderInv'
<1> USE ReaderAssumption
<1>1. ASSUME NEW b \in Block, Begin(r, b) PROVE ReaderInv'
  BY <1>1, ReaderJoins DEF Begin, Unjoined, chain, results
<1>2. ASSUME NEW b \in Block \cup {None}, BeginSnapshot(r, b) PROVE ReaderInv'
  <2>1. /\ UNCHANGED <<pinned, tip, wrong, members, authenticating, unanswered, mismatch,
                       decision, settled, via, got, count, addresses>>
        /\ stage[r] = "idle" /\ stage' = [stage EXCEPT ![r] = "header"]
        /\ block' = [block EXCEPT ![r] = b]
    BY <1>2 DEF BeginSnapshot, chain, authentications, results
  <2>2. via[r] = None /\ r # None
    BY <2>1 DEF ReaderInv, Joins, Unjoined
  <2>3. /\ \A y \in Read \ {r} : block'[y] = block[y] /\ stage'[y] = stage[y] /\ via[y] # r
        /\ stage'[r] = "header" /\ \A c \in Block : authenticating[c] # r
    BY <2>1, <2>2 DEF ReaderInv, ReaderTypeOK, Joins, Flying
  <2>4. ReaderTypeOK'
    BY <2>1 DEF ReaderInv, ReaderTypeOK, Stage
  <2>5. Joins'
    BY <2>1, <2>2, <2>3 DEF ReaderInv, ReaderTypeOK, Joins, Unjoined, Admitted
  <2>6. Flying'
    BY <2>1, <2>2, <2>3 DEF ReaderInv, ReaderTypeOK, Flying
  <2>7. Verdicts'
    <3>1. decision[r] = None
      BY <2>2 DEF ReaderInv, Joins
    <3> QED
      BY <2>1, <2>2, <2>3, <3>1 DEF ReaderInv, Verdicts
  <2>8. Values'
    BY <2>1, <2>2, <2>3 DEF ReaderInv, Values, Unjoined, Admitted, parts
  <2>9. Pages'
    BY <2>1, <2>3 DEF ReaderInv, Pages, Unjoined, Read
  <2> QED
    BY <2>4, <2>5, <2>6, <2>7, <2>8, <2>9 DEF ReaderInv
<1>3. CASE Header(r)
  <2>1. PICK b \in IF block[r] = None THEN {tip} ELSE answered_at(block[r]) :
          IF block[r] \in {None, b}
          THEN /\ block' = [block EXCEPT ![r] = b]
               /\ Authenticate(r, b)
               /\ stage' = [stage EXCEPT ![r] = "authenticate"]
          ELSE /\ stage' = [stage EXCEPT ![r] = "failed"]
               /\ UNCHANGED <<block, via, authenticating>>
    BY <1>3 DEF Header
  <2>2. /\ UNCHANGED <<pinned, tip, wrong, members, unanswered, mismatch, decision, settled,
                       got, count, addresses>>
        /\ stage[r] = "header"
    BY <1>3 DEF Header, chain, results
  <2>3. CASE block[r] \in {None, b}
    <3>1. b \in Block
      BY <2>3 DEF ReaderInv, ReaderTypeOK
    <3> QED
      BY <2>1, <2>2, <2>3, <3>1, ReaderJoins DEF Unjoined
  <2>4. CASE block[r] \notin {None, b}
    <3>1. /\ UNCHANGED <<block, via, authenticating>>
          /\ stage' = [stage EXCEPT ![r] = "failed"]
      BY <2>1, <2>4
    <3> QED
      BY <2>2, <3>1, ReaderFails
  <2> QED
    BY <2>3, <2>4
<1> QED
  BY <1>1, <1>2, <1>3

LEMMA ReaderAdmits == ASSUME ReaderInv, NEW r \in Read, AfterAuthentication(r) PROVE ReaderInv'
<1> USE ReaderAssumption
<1>1. /\ UNCHANGED <<pinned, tip, wrong, members, authenticating, unanswered, mismatch,
                     decision, settled, block, via, got, count, addresses>>
      /\ stage[r] = "authenticate" /\ settled[via[r]]
      /\ stage' = [stage EXCEPT ![r] =
             IF decision[via[r]] = "rejected" THEN "failed"
             ELSE IF r \in Listing THEN "count" ELSE "raw"]
  BY DEF AfterAuthentication, authenticated, chain, authentications, results
<1>2. CASE decision[via[r]] = "rejected"
  BY <1>1, <1>2, ReaderFails
<1>3. CASE decision[via[r]] # "rejected"
  <2>1. via[r] \in Read /\ decision[via[r]] = "accepted"
    BY <1>1, <1>3 DEF ReaderInv, ReaderTypeOK, Joins
  <2>2. /\ \A y \in Read \ {r} : stage'[y] = stage[y]
        /\ stage'[r] = IF r \in Listing THEN "count" ELSE "raw"
    BY <1>1, <1>3 DEF ReaderInv, ReaderTypeOK
  <2>3. ReaderTypeOK'
    BY <1>1, <2>2 DEF ReaderInv, ReaderTypeOK, Stage
  <2>4. Joins' /\ Flying' /\ Verdicts'
    BY <1>1, <2>2 DEF ReaderInv, Joins, Flying, Verdicts, Unjoined, Admitted
  <2>5. Values'
    BY <1>1, <2>1, <2>2 DEF ReaderInv, Values, Unjoined, Admitted, parts
  <2>6. Pages'
    BY <1>1, <2>2 DEF ReaderInv, Pages, Unjoined, Read
  <2> QED
    BY <2>3, <2>4, <2>5, <2>6 DEF ReaderInv
<1> QED
  BY <1>2, <1>3

\* The block a call is answered from is the one it names, if the node is pinned.
LEMMA AnsweredAt ==
    ASSUME ReaderInv, NEW r \in Read, stage[r] \in Admitted, NEW b \in answered_at(at(r))
    PROVE  b \in Block /\ (pinned => b = block[r])
BY ReaderAssumption DEF answered_at, at, ReaderInv, ReaderTypeOK, Joins, Block

LEMMA ReaderRaw == ASSUME ReaderInv, NEW r \in Read, NEW p \in Part, Raw(r, p) PROVE ReaderInv'
<1> USE ReaderAssumption
<1>1. /\ UNCHANGED <<pinned, tip, wrong, members, authenticating, unanswered, mismatch,
                     decision, settled, block, via, count, addresses>>
      /\ stage[r] = "raw" /\ r \notin Listing
      /\ stage' = [stage EXCEPT ![r] =
             IF \A other \in parts(r) : got'[r][other] # None THEN "done" ELSE @]
  BY DEF Raw, chain, authentications, ReaderInv, ReaderTypeOK
<1>2. PICK b \in answered_at(at(r)) : got' = [got EXCEPT ![r][p] = b]
  BY DEF Raw
<1>3. b \in Block /\ (pinned => b = block[r])
  BY <1>1, AnsweredAt DEF Admitted
<1>4. /\ \A y \in Read \ {r} : stage'[y] = stage[y] /\ got'[y] = got[y]
      /\ stage'[r] \in {"raw", "done"}
      /\ stage'[r] = "done" => \A other \in parts(r) : got'[r][other] # None
      /\ \A o \in Part : got'[r][o] = IF o = p THEN b ELSE got[r][o]
  BY <1>1, <1>2 DEF ReaderInv, ReaderTypeOK
<1>5. ReaderTypeOK'
  <2>1. got' \in [Read -> [Part -> Block \cup {None}]]
    BY <1>2, <1>3 DEF ReaderInv, ReaderTypeOK
  <2> QED
    BY <1>1, <1>4, <2>1 DEF ReaderInv, ReaderTypeOK, Stage
<1>6. Joins' /\ Flying' /\ Verdicts'
  <2>1. Flying' /\ Verdicts'
    BY <1>1 DEF ReaderInv, Flying, Verdicts
  <2>2. \A y \in Read : /\ stage'[y] \in Unjoined <=> stage[y] \in Unjoined
                        /\ stage'[y] \in Admitted <=> stage[y] \in Admitted
                        /\ stage'[y] = "authenticate" <=> stage[y] = "authenticate"
    BY <1>1, <1>4 DEF Unjoined, Admitted
  <2>3. Joins'
    BY <1>1, <2>2 DEF ReaderInv, Joins
  <2> QED
    BY <2>1, <2>3
<1>7. Values'
  <2>1. decision[via[r]] = "accepted"
    BY <1>1 DEF ReaderInv, Values, Admitted
  <2>2. \A o \in Part : got'[r][o] # None => (pinned => got'[r][o] = block[r])
    BY <1>3, <1>4 DEF ReaderInv, Values
  <2> QED
    BY <1>1, <1>4, <2>1, <2>2 DEF ReaderInv, Values, Unjoined, Admitted, parts
<1>8. Pages'
  BY <1>1, <1>4 DEF ReaderInv, Pages, Read
<1> QED
  BY <1>5, <1>6, <1>7, <1>8 DEF ReaderInv

LEMMA ReaderCount == ASSUME ReaderInv, NEW r \in Read, Count(r) PROVE ReaderInv'
<1> USE ReaderAssumption
<1>1. /\ UNCHANGED <<pinned, tip, wrong, members, authenticating, unanswered, mismatch,
                     decision, settled, block, via, got, addresses>>
      /\ stage[r] = "count" /\ r \in Listing
  BY DEF Count, chain, authentications, ReaderInv, ReaderTypeOK
<1>2. PICK b \in answered_at(at(r)) :
         /\ count' = [count EXCEPT ![r] = Len(members[b])]
         /\ stage' = [stage EXCEPT ![r] =
                IF Len(members[b]) > MaxAddresses THEN "failed"
                ELSE IF members[b] = <<>> THEN "done" ELSE "page"]
  BY DEF Count
<1>3. b \in Block /\ (pinned => b = block[r])
  BY <1>1, AnsweredAt DEF Admitted
<1>4. members[b] \in Seq(Address) /\ Len(members[b]) \in Nat
  <2>1. members[b] \in Lists
    BY <1>3 DEF ReaderInv, ReaderTypeOK
  <2> QED
    BY <2>1
<1>5. /\ \A y \in Read \ {r} : stage'[y] = stage[y] /\ count'[y] = count[y]
      /\ stage'[r] \in {"failed", "page", "done"}
      /\ stage'[r] = "done" => members[b] = << >>
      /\ count'[r] = Len(members[b])
  BY <1>2 DEF ReaderInv, ReaderTypeOK
<1>6. addresses[r] = << >>
  BY <1>1 DEF ReaderInv, Pages
<1>7. ReaderTypeOK'
  <2>1. count' \in [Read -> Nat]
    BY <1>2, <1>4 DEF ReaderInv, ReaderTypeOK
  <2> QED
    BY <1>1, <1>5, <1>2, <2>1 DEF ReaderInv, ReaderTypeOK, Stage
<1>8. Joins' /\ Flying' /\ Verdicts'
  BY <1>1, <1>5 DEF ReaderInv, Joins, Flying, Verdicts, Unjoined, Admitted
<1>9. Values'
  BY <1>1, <1>5 DEF ReaderInv, Values, Unjoined, Admitted, parts
<1>10. Pages'
  <2>1. Len(addresses[r]) = 0 /\ Distinct(addresses[r])
    BY <1>6 DEF Distinct
  <2>2. stage'[r] = "done" => count'[r] = 0
    BY <1>5
  <2>3. pinned => count'[r] = Len(members[block[r]])
    BY <1>3, <1>5
  <2> QED
    BY <1>1, <1>4, <1>5, <2>1, <2>2, <2>3 DEF ReaderInv, Pages, Unjoined, Read
<1> QED
  BY <1>7, <1>8, <1>9, <1>10 DEF ReaderInv

\* A page of a list without repeated entries, behind a prefix of it.
LEMMA PageOfList ==
    ASSUME NEW b \in Block, members[b] \in Lists, NEW k \in Nat
    PROVE  /\ page(b, k) \in Seq(Address)
           /\ \A i \in 1 .. Len(page(b, k)) :
                 k + i \in 1 .. Len(members[b]) /\ page(b, k)[i] = members[b][k + i]
           /\ Distinct(page(b, k))
           /\ k <= Len(members[b]) => k + Len(page(b, k)) <= Len(members[b])
<1> DEFINE m == members[b]
           n == least(k + PageSize, Len(m))
<1>1. m \in Seq(Address) /\ Len(m) \in Nat /\ DOMAIN m = 1 .. Len(m)
      /\ PageSize \in Nat /\ \A i, j \in DOMAIN m : m[i] = m[j] => i = j
  BY ReaderAssumption
<1>2. n \in Nat /\ n <= Len(m)
  BY <1>1 DEF least
<1>3. \A i \in k + 1 .. n : m[i] \in Address
  BY <1>1, <1>2
<1>4. page(b, k) = SubSeq(m, k + 1, n)
  BY DEF page
<1> HIDE DEF m, n
<1>5. /\ page(b, k) \in Seq(Address)
      /\ Len(page(b, k)) = IF k + 1 <= n THEN n - (k + 1) + 1 ELSE 0
      /\ \A i \in 1 .. n - (k + 1) + 1 : page(b, k)[i] = m[(k + 1) + i - 1]
  BY <1>2, <1>3, <1>4, SubSeqProperties
<1>6. \A i \in 1 .. Len(page(b, k)) : k + i \in 1 .. Len(m) /\ page(b, k)[i] = m[k + i]
  BY <1>1, <1>2, <1>5
<1>7. Distinct(page(b, k))
  <2> SUFFICES ASSUME NEW i \in 1 .. Len(page(b, k)), NEW j \in 1 .. Len(page(b, k)),
                      page(b, k)[i] = page(b, k)[j]
               PROVE  i = j
    BY DEF Distinct
  <2>1. Len(page(b, k)) \in Nat
    BY <1>5, LenProperties
  <2>2. i \in Nat /\ j \in Nat
    BY <2>1
  <2>3. m[k + i] = m[k + j] /\ k + i \in DOMAIN m /\ k + j \in DOMAIN m
    BY <1>1, <1>6
  <2>4. k + i = k + j
    BY <1>1, <2>3
  <2> QED
    BY <2>2, <2>4
<1>8. k <= Len(m) => k + Len(page(b, k)) <= Len(m)
  BY <1>1, <1>2, <1>5
<1> QED
  BY <1>5, <1>6, <1>7, <1>8 DEF m

LEMMA ReaderPage == ASSUME ReaderInv, NEW r \in Read, Page(r) PROVE ReaderInv'
<1> USE ReaderAssumption
<1>1. /\ UNCHANGED <<pinned, tip, wrong, members, authenticating, unanswered, mismatch,
                     decision, settled, block, via, got, count>>
      /\ stage[r] = "page" /\ r \in Listing
  BY DEF Page, chain, authentications, ReaderInv, ReaderTypeOK
<1> DEFINE k == Len(addresses[r])
<1>2. PICK b \in answered_at(at(r)) :
         LET entries == page(b, k)
             whole == addresses[r] \o entries
         IN  IF fits(r, entries)
             THEN /\ addresses' = [addresses EXCEPT ![r] = whole]
                  /\ stage' = [stage EXCEPT ![r] =
                         IF Len(whole) = count[r] THEN "done" ELSE @]
             ELSE /\ stage' = [stage EXCEPT ![r] = "failed"]
                  /\ UNCHANGED addresses
  BY DEF Page, offset, ends
<1>3. b \in Block /\ (pinned => b = block[r]) /\ members[b] \in Lists
  BY <1>1, AnsweredAt DEF Admitted, ReaderInv, ReaderTypeOK
<1> DEFINE entries == page(b, k)
           whole == addresses[r] \o entries
<1>4. CASE ~fits(r, entries)
  BY <1>1, <1>2, <1>4, ReaderFails
<1>5. CASE fits(r, entries)
  <2>1. addresses[r] \in Seq(Address) /\ k \in Nat
    BY DEF ReaderInv, ReaderTypeOK
  <2>2. /\ entries \in Seq(Address) /\ Len(entries) \in Nat /\ Distinct(entries)
        /\ \A i \in 1 .. Len(entries) :
              k + i \in 1 .. Len(members[b]) /\ entries[i] = members[b][k + i]
        /\ k <= Len(members[b]) => k + Len(entries) <= Len(members[b])
    <3>1. /\ entries \in Seq(Address)
          /\ \A i \in 1 .. Len(entries) :
                k + i \in 1 .. Len(members[b]) /\ entries[i] = members[b][k + i]
          /\ Distinct(entries)
          /\ k <= Len(members[b]) => k + Len(entries) <= Len(members[b])
      <4> HIDE DEF k
      <4> QED
        BY <1>3, <2>1, PageOfList
    <3> HIDE DEF entries, k
    <3>2. Len(entries) \in Nat
      BY <3>1, LenProperties
    <3> QED
      BY <3>1, <3>2
  <2>3. \A i \in 1 .. Len(entries), j \in 1 .. k : entries[i] # addresses[r][j]
    BY <1>5, <2>1, <2>2 DEF fits
  <2> HIDE DEF entries, k
  <2>4. /\ whole \in Seq(Address) /\ Len(whole) = k + Len(entries)
        /\ \A i \in 1 .. Len(whole) :
              whole[i] = IF i <= k THEN addresses[r][i] ELSE entries[i - k]
    BY <2>1, <2>2, ConcatProperties DEF k
  <2> HIDE DEF whole
  <2>5. Distinct(addresses[r]) /\ Len(addresses[r]) = k
    BY <1>1 DEF ReaderInv, Pages, k
  <2>6. Distinct(whole)
    <3> SUFFICES ASSUME NEW i \in 1 .. Len(whole), NEW j \in 1 .. Len(whole),
                        whole[i] = whole[j]
                 PROVE  i = j
      BY DEF Distinct
    <3>0. i \in Nat /\ j \in Nat /\ k \in Nat
      BY <2>1, <2>2, <2>4
    <3>1. /\ i <= k => i \in 1 .. k /\ whole[i] = addresses[r][i]
          /\ i > k => i - k \in 1 .. Len(entries) /\ whole[i] = entries[i - k]
          /\ j <= k => j \in 1 .. k /\ whole[j] = addresses[r][j]
          /\ j > k => j - k \in 1 .. Len(entries) /\ whole[j] = entries[j - k]
      BY <2>1, <2>2, <2>4
    <3>2. CASE i <= k /\ j <= k
      BY <2>5, <3>1, <3>2 DEF Distinct
    <3>3. CASE i > k /\ j > k
      <4>1. i - k = j - k
        BY <2>2, <3>1, <3>3 DEF Distinct
      <4> QED
        BY <2>1, <2>2, <2>4, <4>1
    <3>4. CASE i <= k /\ j > k
      BY <2>3, <3>1, <3>4
    <3>5. CASE i > k /\ j <= k
      BY <2>3, <3>1, <3>5
    <3>6. (i <= k \/ i > k) /\ (j <= k \/ j > k)
      BY <3>0
    <3> QED
      BY <3>2, <3>3, <3>4, <3>5, <3>6
  <2>7. /\ \A y \in Read \ {r} : stage'[y] = stage[y] /\ addresses'[y] = addresses[y]
        /\ stage'[r] \in {"page", "done"} /\ addresses'[r] = whole
        /\ stage'[r] = "done" => Len(whole) = count[r]
        /\ addresses' = [addresses EXCEPT ![r] = whole]
    BY <1>1, <1>2, <1>5 DEF ReaderInv, ReaderTypeOK, entries, whole
  <2>8. ASSUME pinned
        PROVE  /\ count[r] = Len(members[block[r]]) /\ Len(whole) <= count[r]
               /\ \A i \in 1 .. Len(whole) : whole[i] = members[block[r]][i]
    <3>1. /\ count[r] = Len(members[block[r]]) /\ k <= count[r] /\ b = block[r]
          /\ \A i \in 1 .. k : addresses[r][i] = members[b][i]
      BY <1>1, <1>3, <2>5, <2>8 DEF ReaderInv, Pages
    <3>2. \A i \in 1 .. Len(whole) : whole[i] = members[b][i]
      <4> SUFFICES ASSUME NEW i \in 1 .. Len(whole) PROVE whole[i] = members[b][i]
        OBVIOUS
      <4>1. CASE i <= k
        <5>1. i \in 1 .. k
          BY <2>1, <2>2, <2>4, <4>1
        <5>2. whole[i] = addresses[r][i]
          BY <2>4, <4>1
        <5>3. addresses[r][i] = members[b][i]
          BY <3>1, <5>1
        <5> QED
          BY <5>2, <5>3
      <4>2. CASE i > k
        <5>1. i - k \in 1 .. Len(entries) /\ whole[i] = entries[i - k] /\ k + (i - k) = i
          BY <2>1, <2>2, <2>4, <4>2
        <5> QED
          BY <2>2, <5>1
      <4> QED
        BY <2>1, <2>2, <2>4, <4>1, <4>2
    <3> QED
      BY <2>2, <2>4, <3>1, <3>2
  <2>9. ReaderTypeOK'
    <3>1. addresses' \in [Read -> Seq(Address)]
      BY <2>4, <2>7 DEF ReaderInv, ReaderTypeOK
    <3>2. stage' \in [Read -> Stage]
      <4>1. stage' = [stage EXCEPT ![r] = IF Len(whole) = count[r] THEN "done" ELSE stage[r]]
        BY <1>2, <1>5 DEF entries, whole
      <4>2. stage \in [Read -> Stage] /\ "done" \in Stage /\ stage[r] \in Stage
        BY DEF ReaderInv, ReaderTypeOK, Stage
      <4>3. (IF Len(whole) = count[r] THEN "done" ELSE stage[r]) \in Stage
        BY <4>2
      <4> QED
        BY <4>1, <4>2, <4>3
    <3> QED
      BY <1>1, <2>7, <3>1, <3>2 DEF ReaderInv, ReaderTypeOK
  <2>10. Joins' /\ Flying' /\ Verdicts'
    BY <1>1, <2>7 DEF ReaderInv, Joins, Flying, Verdicts, Unjoined, Admitted
  <2>11. Values'
    BY <1>1, <2>7 DEF ReaderInv, Values, Unjoined, Admitted, parts
  <2>12. Pages'
    <3> SUFFICES
          ASSUME NEW y \in Listing
          PROVE  /\ stage'[y] \in Unjoined \cup {"authenticate", "count"} => addresses'[y] = << >>
                 /\ stage'[y] \in {"page", "done"} =>
                       /\ Distinct(addresses'[y])
                       /\ stage'[y] = "done" => Len(addresses'[y]) = count[y]
                       /\ pinned =>
                             /\ count[y] = Len(members[block[y]])
                             /\ Len(addresses'[y]) <= count[y]
                             /\ \A i \in 1 .. Len(addresses'[y]) :
                                   addresses'[y][i] = members[block[y]][i]
      BY <1>1 DEF Pages
    <3>1. CASE y = r
      <4>1. stage'[r] \notin Unjoined \cup {"authenticate", "count"}
        BY <2>7 DEF Unjoined
      <4> QED
        BY <2>6, <2>7, <2>8, <3>1, <4>1
    <3>2. CASE y # r
      <4>1. stage'[y] = stage[y] /\ addresses'[y] = addresses[y]
        BY <2>7, <3>2 DEF Read
      <4> QED
        BY <4>1 DEF ReaderInv, Pages
    <3> QED
      BY <3>1, <3>2
  <2> QED
    BY <2>9, <2>10, <2>11, <2>12 DEF ReaderInv
<1> QED
  BY <1>4, <1>5

LEMMA ReaderStep == ReaderInv /\ [Next]_vars => ReaderInv'
<1> SUFFICES ASSUME ReaderInv, [Next]_vars PROVE ReaderInv'
  OBVIOUS
<1>1. CASE NewBlock
  <2>1. tip' \in Block /\ UNCHANGED <<pinned, wrong, members, authenticating, unanswered,
                 mismatch, decision, settled, stage, block, via, got, count, addresses>>
    BY <1>1, ReaderAssumption DEF NewBlock, authentications, results, ReaderInv,
                                  ReaderTypeOK, Block
  <2> QED
    BY <2>1 DEF ReaderInv, ReaderTypeOK, Joins, Flying, Verdicts, Values, Pages, parts
<1>2. CASE UNCHANGED vars
  BY <1>2 DEF vars, ReaderInv, ReaderTypeOK, Joins, Flying, Verdicts, Values, Pages, parts
<1>3. ASSUME NEW r \in Read, Transport(r) PROVE ReaderInv'
  BY <1>3, ReaderAsked DEF Transport
<1>4. ASSUME NEW r \in Read, Continue(r) PROVE ReaderInv'
  <2>1. CASE CallFails(r)
    BY <2>1, ReaderFails DEF CallFails, chain, authentications, results
  <2> QED
    BY <1>4, <2>1, ReaderBegins, ReaderAdmits, ReaderRaw, ReaderCount, ReaderPage DEF Continue
<1> QED
  BY <1>1, <1>2, <1>3, <1>4, ReaderSettled, ReaderBegins DEF Next

\* What a read returns is of one block, at which the registry is the trusted
\* one, whoever began the authentication and whenever the answers came.
THEOREM ReaderReadsAreAuthenticated == Spec => []ReadsAreAuthenticated
<1>1. ReaderInv => ReadsAreAuthenticated
  <2> SUFFICES ASSUME ReaderInv, pinned PROVE ReadsAreAuthenticated
    BY DEF ReadsAreAuthenticated
  <2>1. ASSUME NEW r \in Read, stage[r] = "done" PROVE wrong[block[r]] = {}
    <3>1. via[r] \in Read /\ decision[via[r]] = "accepted" /\ block[via[r]] = block[r]
      BY <2>1 DEF ReaderInv, ReaderTypeOK, Joins, Values, Admitted
    <3> QED
      BY <3>1 DEF ReaderInv, Verdicts
  <2>2. ASSUME NEW r \in Snapshot \cup Value, stage[r] = "done", NEW p \in parts(r)
        PROVE  got[r][p] = block[r]
    <3>1. r \in Read \ Listing /\ p \in Part
      BY ReaderAssumption DEF Read, parts, Part
    <3> QED
      BY <2>2, <3>1 DEF ReaderInv, Values
  <2> QED
    BY <2>1, <2>2 DEF ReadsAreAuthenticated
<1> QED
  BY <1>1, ReaderInit, ReaderStep, PTL DEF Spec

\* A listing is the whole list of its block, or of another node's blocks at
\* least one without a repeated or missing entry.
THEOREM ReaderListingIsComplete == Spec => []ListingIsComplete
<1>1. ReaderInv => ListingIsComplete
  <2> SUFFICES ASSUME ReaderInv, NEW r \in Listing, stage[r] = "done"
               PROVE  /\ pinned => addresses[r] = members[block[r]]
                      /\ Len(addresses[r]) = count[r]
                      /\ \A i, j \in 1 .. count[r] :
                            addresses[r][i] = addresses[r][j] => i = j
    BY DEF ListingIsComplete
  <2>1. r \in Read /\ Len(addresses[r]) = count[r] /\ Distinct(addresses[r])
        /\ addresses[r] \in Seq(Address)
    BY DEF ReaderInv, ReaderTypeOK, Pages, Read
  <2>2. ASSUME pinned PROVE addresses[r] = members[block[r]]
    <3>1. /\ count[r] = Len(members[block[r]])
          /\ \A i \in 1 .. Len(addresses[r]) : addresses[r][i] = members[block[r]][i]
      BY <2>2 DEF ReaderInv, Pages
    <3>2. members[block[r]] \in Seq(Address)
      BY <2>1, ReaderAssumption DEF ReaderInv, ReaderTypeOK, Joins, Admitted
    <3> QED
      BY <2>1, <3>1, <3>2, SeqEqual
  <2> QED
    BY <2>1, <2>2 DEF Distinct
<1> QED
  BY <1>1, ReaderInit, ReaderStep, PTL DEF Spec

\* No read joins an authentication that was over before it.
THEOREM ReaderOnlyInFlightShared == Spec => OnlyInFlightShared
<1> DEFINE A == \A r \in Read : via[r] = None /\ via'[r] # None => ~settled[via'[r]]
<1>1. ReaderInv /\ [Next]_vars => [A]_vars
  <2> SUFFICES ASSUME ReaderInv, Next, NEW r \in Read, via[r] = None, via'[r] # None
               PROVE  ~settled[via'[r]]
    OBVIOUS
  <2>1. PICK b \in Block : Authenticate(r, b)
    <3>1. via' # via
      OBVIOUS
    <3>2. PICK s \in Read : (\E b \in Block : Begin(s, b)) \/ Header(s)
      BY <3>1 DEF Next, NewBlock, BeginSnapshot, Transport, QueryAnswered, QueryFails, Settle,
                  Continue, AfterAuthentication, Raw, Count, Page, CallFails,
                  authentications, results
    <3>3. PICK b : Authenticate(s, b) /\ (b \in Block)
      <4>1. CASE \E b \in Block : Begin(s, b)
        BY <4>1 DEF Begin
      <4>2. CASE Header(s)
        <5>1. PICK b \in IF block[s] = None THEN {tip} ELSE answered_at(block[s]) :
                   Authenticate(s, b) /\ block[s] \in {None, b}
          BY <3>1, <4>2 DEF Header
        <5> QED
          BY <5>1, ReaderAssumption DEF ReaderInv, ReaderTypeOK
      <4> QED
        BY <3>2, <4>1, <4>2
    <3>4. s = r
      BY <3>3 DEF Authenticate, ReaderInv, ReaderTypeOK
    <3> QED
      BY <3>3, <3>4
  <2>2. via'[r] = IF authenticating[b] # None THEN authenticating[b] ELSE r
    BY <2>1 DEF Authenticate, ReaderInv, ReaderTypeOK
  <2> QED
    BY <2>2, ReaderAssumption DEF ReaderInv, ReaderTypeOK, Joins, Flying
<1> QED
  BY <1>1, ReaderInit, ReaderStep, PTL DEF Spec, OnlyInFlightShared

-----------------------------------------------------------------------------
(* Nobody waits for nothing, and no read goes back: what ReadsSettle needs *)
(* besides the answers of the node.                                        *)

\* An authentication without a verdict still has a query open, and a listing
\* between its pages still lacks an entry.
Open ==
    /\ \A x \in Read : decision[x] = None => unanswered[x] # {}
    /\ \A r \in Read :
          stage[r] = "page" => Len(addresses[r]) < count[r] /\ count[r] <= MaxAddresses

Rank(r) ==
    CASE stage[r] = "idle" -> 0 [] stage[r] = "header" -> 1
      [] stage[r] = "authenticate" -> 2 [] stage[r] \in {"raw", "count"} -> 3
      [] stage[r] = "page" -> 4 [] OTHER -> 5

\* A read at its stage has one more of its values, or one more page.
GetsMore(r) ==
    \/ \E p \in parts(r) : got[r][p] = None /\ got'[r][p] # None
    \/ Len(addresses[r]) < Len(addresses'[r]) /\ Len(addresses'[r]) <= count[r]

\* What no step of another actor undoes, and what a step of a read adds.
Onwards(r) ==
    /\ Rank(r)' >= Rank(r)
    /\ unanswered'[r] \subseteq unanswered[r] /\ (settled[r] => settled'[r])
    /\ Transport(r) => unanswered'[r] # unanswered[r]
    /\ Settle(r) => ~settled[r] /\ settled'[r]
    /\ Continue(r) => Rank(r)' > Rank(r) \/ GetsMore(r)

LEMMA OpenQueries ==
    ASSUME ReaderInv, Open, NEW x \in Read, Transport(x)
    PROVE  /\ Open'
           /\ UNCHANGED <<stage, settled>>
           /\ \A r \in Read : unanswered'[r] \subseteq unanswered[r]
           /\ unanswered'[x] # unanswered[x]
<1>1. PICK q \in Query : QueryAnswered(x, q) \/ QueryFails(x, q)
  BY DEF Transport
<1>2. /\ UNCHANGED <<stage, settled, count, addresses>>
      /\ q \in unanswered[x] /\ unanswered' = [unanswered EXCEPT ![x] = @ \ {q}]
  BY <1>1 DEF QueryAnswered, QueryFails, results
<1>3. /\ \A r \in Read : r # x => decision'[r] = decision[r]
      /\ decision'[x] = None => unanswered[x] \ {q} # {}
  <2>1. CASE QueryAnswered(x, q)
    BY <2>1, ReaderAssumption DEF QueryAnswered, verdict, ReaderInv, ReaderTypeOK
  <2>2. CASE QueryFails(x, q)
    BY <2>2, ReaderAssumption DEF QueryFails, ReaderInv, ReaderTypeOK
  <2> QED
    BY <1>1, <2>1, <2>2
<1>4. unanswered \in [Read -> SUBSET Query]
  BY DEF ReaderInv, ReaderTypeOK
<1> QED
  BY <1>2, <1>3, <1>4 DEF Open

\* A read that moves to another stage, or gets more at its own.
LEMMA OneMoves ==
    ASSUME ReaderInv, Open, NEW r \in Read, UNCHANGED <<unanswered, decision, settled>>,
           \A x \in Read \ {r} : /\ stage'[x] = stage[x] /\ count'[x] = count[x]
                                 /\ addresses'[x] = addresses[x],
           stage'[r] = "page" =>
               Len(addresses'[r]) < count'[r] /\ count'[r] <= MaxAddresses,
           Rank(r)' >= Rank(r)
    PROVE  /\ Open'
           /\ \A x \in Read : Rank(x)' >= Rank(x)
<1>1. stage \in [Read -> Stage]
  BY DEF ReaderInv, ReaderTypeOK
<1>2. ASSUME NEW x \in Read, x # r
      PROVE  Rank(x)' = Rank(x) /\ Rank(x) \in Nat
  BY <1>1, <1>2 DEF Rank
<1>3. Open'
  BY DEF Open
<1>4. \A x \in Read : Rank(x)' >= Rank(x)
  BY <1>2
<1> QED
  BY <1>3, <1>4

LEMMA ReadsMove ==
    ASSUME ReaderInv, Open, NEW r \in Read, Continue(r)
    PROVE  /\ Open' /\ UNCHANGED <<unanswered, decision, settled>>
           /\ \A x \in Read : Rank(x)' >= Rank(x)
           /\ Rank(r)' > Rank(r) \/ GetsMore(r)
<1> USE ReaderAssumption
<1>1. /\ stage \in [Read -> Stage] /\ count \in [Read -> Nat]
      /\ addresses \in [Read -> Seq(Address)]
      /\ got \in [Read -> [Part -> Block \cup {None}]]
  BY DEF ReaderInv, ReaderTypeOK
<1>2. UNCHANGED <<unanswered, decision, settled>>
  BY DEF Continue, Header, AfterAuthentication, Count, Page, CallFails, Raw, authentications
<1>3. CASE Header(r) \/ AfterAuthentication(r) \/ CallFails(r)
  <2>1. PICK s \in {"authenticate", "raw", "count", "failed"} :
            /\ stage' = [stage EXCEPT ![r] = s]
            /\ UNCHANGED <<addresses, count>>
            /\ s = "authenticate" => stage[r] = "header"
            /\ s \in {"raw", "count"} => stage[r] = "authenticate"
            /\ stage[r] \in {"header", "authenticate", "raw", "count", "page"}
    BY <1>3 DEF Header, AfterAuthentication, CallFails, results
  <2>2. Rank(r)' > Rank(r)
    BY <1>1, <2>1 DEF Rank
  <2>3. Rank(r) \in Nat /\ Rank(r)' \in Nat
    BY DEF Rank
  <2>4. /\ stage'[r] # "page"
        /\ \A x \in Read \ {r} : /\ stage'[x] = stage[x] /\ count'[x] = count[x]
                                 /\ addresses'[x] = addresses[x]
    BY <1>1, <2>1
  <2> QED
    BY <1>2, <2>2, <2>3, <2>4, OneMoves
<1>4. CASE Count(r)
  <2>1. PICK b \in answered_at(at(r)) :
            /\ count' = [count EXCEPT ![r] = Len(members[b])]
            /\ stage' = [stage EXCEPT ![r] =
                   IF Len(members[b]) > MaxAddresses THEN "failed"
                   ELSE IF members[b] = <<>> THEN "done" ELSE "page"]
    BY <1>4 DEF Count
  <2>2. stage[r] = "count" /\ addresses' = addresses /\ addresses[r] = <<>>
    BY <1>4 DEF Count, ReaderInv, ReaderTypeOK, Pages
  <2>3. members[b] \in Seq(Address)
    BY <2>1, <2>2, AnsweredAt
    DEF ReaderInv, ReaderTypeOK, Joins, Values, Admitted
  <2>4. stage'[r] = "page" => Len(addresses'[r]) < count'[r] /\ count'[r] <= MaxAddresses
    BY <1>1, <2>1, <2>2, <2>3
  <2>5. Rank(r)' > Rank(r) /\ Rank(r) \in Nat /\ Rank(r)' \in Nat
    BY <1>1, <2>1, <2>2 DEF Rank
  <2>6. \A x \in Read \ {r} : /\ stage'[x] = stage[x] /\ count'[x] = count[x]
                              /\ addresses'[x] = addresses[x]
    BY <1>1, <2>1, <2>2
  <2> QED
    BY <1>2, <2>4, <2>5, <2>6, OneMoves
<1>5. CASE Page(r)
  <2>1. PICK b \in answered_at(at(r)) :
            LET entries == page(b, offset(r))
                whole == addresses[r] \o entries
            IN  IF fits(r, entries)
                THEN /\ addresses' = [addresses EXCEPT ![r] = whole]
                     /\ stage' = [stage EXCEPT ![r] =
                            IF ends(r, whole) THEN "done" ELSE @]
                ELSE /\ stage' = [stage EXCEPT ![r] = "failed"]
                     /\ UNCHANGED addresses
    BY <1>5 DEF Page
  <2> DEFINE entries == page(b, offset(r))
             whole == addresses[r] \o entries
  <2>2. stage[r] = "page" /\ count' = count
        /\ Len(addresses[r]) < count[r] /\ count[r] <= MaxAddresses
    BY <1>5 DEF Page, Open
  <2>3. entries \in Seq(Address)
    <3>1. b \in Block /\ members[b] \in Lists
      BY <2>1, <2>2, AnsweredAt DEF ReaderInv, ReaderTypeOK, Admitted
    <3>2. offset(r) \in Nat
      BY <1>1 DEF offset
    <3> QED
      BY <3>1, <3>2, PageOfList
  <2> HIDE DEF entries
  <2>4. CASE fits(r, entries)
    <3>1. /\ addresses' = [addresses EXCEPT ![r] = whole]
          /\ stage' = [stage EXCEPT ![r] = IF ends(r, whole) THEN "done" ELSE "page"]
      BY <2>1, <2>2, <2>4 DEF entries
    <3>2. /\ Len(addresses[r]) \in Nat /\ count[r] \in Nat /\ Len(whole) \in Nat
          /\ Len(whole) = Len(addresses[r]) + Len(entries)
      BY <1>1, <2>3
    <3>3. Len(entries) = least(count[r] - Len(addresses[r]), PageSize)
      BY <2>4 DEF fits
    <3>4. Len(addresses[r]) < Len(whole) /\ Len(whole) <= count[r]
      <4> HIDE DEF whole
      <4> QED
        BY <2>2, <3>2, <3>3 DEF least
    <3>5. GetsMore(r)
      BY <1>1, <3>1, <3>4 DEF GetsMore
    <3>6. stage'[r] = "page" => Len(addresses'[r]) < count'[r] /\ count'[r] <= MaxAddresses
      <4>1. addresses'[r] = whole /\ count'[r] = count[r]
        BY <1>1, <2>2, <3>1
      <4>2. stage'[r] = "page" => Len(whole) # count[r]
        BY <1>1, <3>1 DEF ends
      <4> HIDE DEF whole
      <4> QED
        BY <2>2, <3>2, <3>4, <4>1, <4>2
    <3>7. Rank(r)' >= Rank(r)
      BY <1>1, <2>2, <3>1 DEF Rank
    <3>8. \A x \in Read \ {r} : /\ stage'[x] = stage[x] /\ count'[x] = count[x]
                                /\ addresses'[x] = addresses[x]
      BY <1>1, <2>2, <3>1
    <3> QED
      BY <1>2, <3>5, <3>6, <3>7, <3>8, OneMoves
  <2>5. CASE ~fits(r, entries)
    <3>1. stage' = [stage EXCEPT ![r] = "failed"] /\ addresses' = addresses
      BY <2>1, <2>5 DEF entries
    <3>2. Rank(r)' > Rank(r) /\ Rank(r) \in Nat /\ Rank(r)' \in Nat
      BY <1>1, <2>2, <3>1 DEF Rank
    <3>3. /\ stage'[r] # "page"
          /\ \A x \in Read \ {r} : /\ stage'[x] = stage[x] /\ count'[x] = count[x]
                                   /\ addresses'[x] = addresses[x]
      BY <1>1, <2>2, <3>1
    <3> QED
      BY <1>2, <3>2, <3>3, OneMoves
  <2> QED
    BY <2>4, <2>5
<1>6. ASSUME NEW p \in Part, Raw(r, p)
      PROVE  /\ Open' /\ UNCHANGED <<unanswered, decision, settled>>
             /\ \A x \in Read : Rank(x)' >= Rank(x)
             /\ Rank(r)' > Rank(r) \/ GetsMore(r)
  <2>1. PICK b \in answered_at(at(r)) : got' = [got EXCEPT ![r][p] = b]
    BY <1>6 DEF Raw
  <2>2. PICK s \in {"raw", "done"} : stage' = [stage EXCEPT ![r] = s]
    BY <1>6 DEF Raw
  <2>3. /\ stage[r] = "raw" /\ UNCHANGED <<addresses, count>>
        /\ p \in parts(r) /\ got[r][p] = None
    BY <1>6 DEF Raw
  <2>4. b # None
    BY <2>1, <2>3, AnsweredAt DEF ReaderInv, ReaderTypeOK, Joins, Values, Admitted
  <2>5. GetsMore(r)
    BY <1>1, <2>1, <2>3, <2>4 DEF GetsMore
  <2>6. Rank(r)' >= Rank(r)
    BY <1>1, <2>2, <2>3 DEF Rank
  <2>7. /\ stage'[r] # "page"
        /\ \A x \in Read \ {r} : /\ stage'[x] = stage[x] /\ count'[x] = count[x]
                                 /\ addresses'[x] = addresses[x]
    BY <1>1, <2>2, <2>3
  <2> QED
    BY <1>2, <2>5, <2>6, <2>7, OneMoves
<1> QED
  BY <1>3, <1>4, <1>5, <1>6 DEF Continue

LEMMA OpenInit == Init => Open
BY ReaderAssumption DEF Init, Open

\* A read that begins.
LEMMA OthersMove ==
    ASSUME ReaderInv, Open, NEW r \in Read,
           \/ \E b \in Block : Begin(r, b)
           \/ \E b \in Block \cup {None} : BeginSnapshot(r, b)
    PROVE  /\ Open' /\ UNCHANGED <<unanswered, decision, settled>>
           /\ \A x \in Read : Rank(x)' >= Rank(x)
           /\ stage[r] = "idle"
<1>1. PICK s \in {"authenticate", "header"} : stage' = [stage EXCEPT ![r] = s]
  BY DEF Begin, BeginSnapshot
<1>2. /\ stage[r] = "idle"
      /\ UNCHANGED <<unanswered, decision, settled, count, addresses>>
  BY DEF Begin, BeginSnapshot, results, authentications
<1>3. stage \in [Read -> Stage]
  BY DEF ReaderInv, ReaderTypeOK
<1>4. Rank(r)' >= Rank(r) /\ stage'[r] # "page"
  BY <1>1, <1>2, <1>3 DEF Rank
<1>5. \A x \in Read \ {r} : /\ stage'[x] = stage[x] /\ count'[x] = count[x]
                            /\ addresses'[x] = addresses[x]
  BY <1>1, <1>2, <1>3
<1> QED
  BY <1>2, <1>4, <1>5, OneMoves

LEMMA OpenStep == ReaderInv /\ Open /\ [Next]_vars => Open' /\ \A r \in Read : Onwards(r)
<1> SUFFICES ASSUME ReaderInv, Open, [Next]_vars PROVE Open' /\ \A r \in Read : Onwards(r)
  OBVIOUS
<1>1. /\ \A x \in Read : Rank(x) \in Nat
      /\ stage \in [Read -> Stage] /\ settled \in [Read -> BOOLEAN]
      /\ unanswered \in [Read -> SUBSET Query]
  BY DEF Rank, ReaderInv, ReaderTypeOK
\* Which variables tell the steps of a read apart.
<1>2. \A x \in Read :
         /\ Transport(x) => unanswered'[x] # unanswered[x] /\ UNCHANGED <<stage, settled>>
         /\ Settle(x) => ~settled[x] /\ settled'[x] /\ UNCHANGED <<stage, unanswered>>
         /\ Continue(x) => /\ UNCHANGED <<unanswered, settled>>
                           /\ Rank(x)' > Rank(x) \/ GetsMore(x)
  <2>1. ASSUME NEW x \in Read, Settle(x)
        PROVE  ~settled[x] /\ settled'[x] /\ UNCHANGED <<stage, unanswered>>
    BY <1>1, <2>1 DEF Settle
  <2> QED
    BY <2>1, OpenQueries, ReadsMove
<1>3. /\ Open'
      /\ \A x \in Read : /\ Rank(x)' >= Rank(x)
                         /\ unanswered'[x] \subseteq unanswered[x]
                         /\ settled[x] => settled'[x]
  <2>1. CASE NewBlock \/ UNCHANGED vars
    BY <1>1, <2>1 DEF NewBlock, vars, authentications, results, Open, Rank
  <2>2. ASSUME NEW r \in Read, Transport(r)
        PROVE  /\ Open'
               /\ \A x \in Read : /\ Rank(x)' >= Rank(x)
                                  /\ unanswered'[x] \subseteq unanswered[x]
                                  /\ settled[x] => settled'[x]
    BY <1>1, <2>2, OpenQueries DEF Rank
  <2>3. ASSUME NEW r \in Read, Settle(r)
        PROVE  /\ Open'
               /\ \A x \in Read : /\ Rank(x)' >= Rank(x)
                                  /\ unanswered'[x] \subseteq unanswered[x]
                                  /\ settled[x] => settled'[x]
    BY <1>1, <2>3 DEF Settle, results, Open, Rank
  <2>4. ASSUME NEW r \in Read,
               \/ Continue(r)
               \/ \E b \in Block : Begin(r, b)
               \/ \E b \in Block \cup {None} : BeginSnapshot(r, b)
        PROVE  /\ Open'
               /\ \A x \in Read : /\ Rank(x)' >= Rank(x)
                                  /\ unanswered'[x] \subseteq unanswered[x]
                                  /\ settled[x] => settled'[x]
    BY <2>4, ReadsMove, OthersMove
  <2> QED
    BY <2>1, <2>2, <2>3, <2>4 DEF Next
<1>4. ASSUME NEW r \in Read PROVE Onwards(r)
  <2>1. Transport(r) => unanswered'[r] # unanswered[r]
    BY <1>2
  <2>2. Settle(r) => ~settled[r] /\ settled'[r]
    BY <1>2
  <2>3. Continue(r) => Rank(r)' > Rank(r) \/ GetsMore(r)
    BY <1>2
  <2> QED
    BY <1>3, <2>1, <2>2, <2>3 DEF Onwards
<1> QED
  BY <1>3, <1>4

NobodyStranded ==
    \A r \in Read : stage[r] = "authenticate" =>
        /\ via[r] \in Read /\ via[via[r]] = via[r]
        /\ authenticated(r) \/ wakes(via[r]) \/ Asking(via[r])

\* A read that waits for an authentication waits for one that will come to an
\* end: it is over and the read may go on, or it has its verdict and the
\* finally callback is due, or a query of it is still with the node.
THEOREM ReaderNobodyStranded == Spec => []NobodyStranded
<1>1. ReaderInv /\ Open => NobodyStranded
  <2> SUFFICES ASSUME ReaderInv, Open, NEW r \in Read, stage[r] = "authenticate"
               PROVE  /\ via[r] \in Read /\ via[via[r]] = via[r]
                      /\ authenticated(r) \/ wakes(via[r]) \/ Asking(via[r])
    BY DEF NobodyStranded
  <2>1. via[r] \in Read /\ via[via[r]] = via[r]
    BY ReaderAssumption DEF ReaderInv, ReaderTypeOK, Joins
  <2>2. via[r] \in {via[x] : x \in Read}
    OBVIOUS
  <2> QED
    BY <2>1, <2>2 DEF Open, Asking, wakes, authenticated
<1>2. ReaderInv /\ Open /\ [Next]_vars => (ReaderInv /\ Open)'
  BY ReaderStep, OpenStep
<1> QED
  BY <1>1, <1>2, ReaderInit, OpenInit, PTL DEF Spec

\* No step takes a read back or an answer away, and whatever a read, the node
\* or a finally callback does is progress: a query fewer, a settled
\* authentication, a later stage, one more value, or a longer listing that is
\* not longer than its count.
THEOREM ReaderNeverReturns == Spec => [][\A r \in Read : Onwards(r)]_vars
<1>1. ReaderInv /\ Open /\ [Next]_vars => (ReaderInv /\ Open)'
  BY ReaderStep, OpenStep
<1>2. ReaderInv /\ Open /\ [Next]_vars => [\A r \in Read : Onwards(r)]_vars
  BY OpenStep
<1> QED
  BY <1>1, <1>2, ReaderInit, OpenInit, PTL DEF Spec
=============================================================================
