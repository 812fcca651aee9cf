------------------------------ MODULE WalletProofs ------------------------------
(***************************************************************************)
(* That a signing attempt opens no late prompt and none under another      *)
(* selection, leaves no listener, and is decided once, by the event that   *)
(* voids it if there is one: for any accounts, chains and number of        *)
(* changes of the wallet.                                                  *)
(***************************************************************************)
EXTENDS WalletProperties, TLAPS

\* The listeners: all are there while the outcome of a request matters.
Listening ==
    /\ installed \subseteq Listener /\ registered \subseteq installed
    /\ step = "installing" /\ race = None => registered = installed
    /\ step \in Request /\ outcome = None => registered = Listener
    /\ outcome # None =>
           registered \subseteq stubborn /\ (outcome = "signed" => registered = {})

\* The race: its winner ends sign() or voids it before the caller is told.
Settling ==
    /\ step \in Request \cup {"installing", "ended"}
    /\ race \in {None, "failed", "signed"}
    /\ outcome \in {None, "failed", "signed"}
    /\ race = "signed" => step = "ended"
    /\ outcome # None => race # None /\ (invalidated \/ step = "ended")

Arrives(name, wanted) ==
    \E i \in DOMAIN undelivered :
        undelivered[i].name = name /\ undelivered[i].value # wanted

\* An answer that was accepted still holds, or the event that says otherwise
\* has arrived or is on its way: also when the wallet has switched away and back.
KnownAccount ==
    step \in Request \ {"before", "accounts"} \/ (step = "accounts" /\ reply = Selected) =>
        invalidated \/ account = Selected \/ Arrives("accountsChanged", Selected)
KnownChain ==
    step \in Request \ {"before", "accounts", "chain"} \/ (step = "chain" /\ reply = Wanted) =>
        invalidated \/ chain = Wanted \/ Arrives("chainChanged", Wanted)

WalletInv ==
    /\ undelivered \in Seq(Event) /\ invalidated \in BOOLEAN
    /\ Listening /\ Settling /\ KnownAccount /\ KnownChain

LEMMA WalletInit == Init => WalletInv
<1> SUFFICES ASSUME Init PROVE WalletInv
  OBVIOUS
<1>1. undelivered \in Seq(Event) /\ invalidated \in BOOLEAN
  <2>1. undelivered = << >> /\ invalidated = FALSE
    BY DEF Init
  <2>2. << >> \in Seq(Event)
    OBVIOUS
  <2>3. undelivered \in Seq(Event)
    BY <2>1, <2>2
  <2> QED
    BY <2>1, <2>3
<1>2. Listening /\ Settling
  BY WalletAssumption DEF Init, Listening, Settling, Request, Listener
<1>3. KnownAccount /\ KnownChain
  BY DEF Init, KnownAccount, KnownChain, Request
<1> QED
  BY <1>1, <1>2, <1>3 DEF WalletInv

\* The wallet changes, and tells so.
LEMMA WalletChange ==
    ASSUME WalletInv, NEW name \in Listener, NEW value,
           [name |-> name, value |-> value] \in Event, Emit(name, value),
           \/ name = "accountsChanged" /\ account' = value /\ chain' = chain
           \/ name = "chainChanged" /\ chain' = value /\ account' = account
           \/ name = "disconnect" /\ chain' = chain /\ account' = account
    PROVE  WalletInv'
<1> DEFINE e == [name |-> name, value |-> value]
<1>1. undelivered' = Append(undelivered, e) /\ undelivered \in Seq(Event) /\ e \in Event
  BY DEF WalletInv, Emit
<1>2. /\ UNCHANGED <<registered, stubborn, installed, invalidated, step, reply, race, outcome>>
      /\ undelivered' \in Seq(Event)
  BY <1>1 DEF Emit
<1>3. ASSUME NEW n, NEW w PROVE
        /\ Arrives(n, w) => Arrives(n, w)'
        /\ name = n /\ value # w => Arrives(n, w)'
  <2>1. /\ Len(undelivered') = Len(undelivered) + 1 /\ Len(undelivered) \in Nat
        /\ undelivered'[Len(undelivered) + 1] = e
        /\ \A i \in DOMAIN undelivered : undelivered'[i] = undelivered[i]
        /\ DOMAIN undelivered = 1 .. Len(undelivered)
        /\ DOMAIN undelivered' = 1 .. (Len(undelivered) + 1)
    BY <1>1
  <2>2. \A i \in DOMAIN undelivered : i \in DOMAIN undelivered'
    BY <2>1
  <2>3. Len(undelivered) + 1 \in DOMAIN undelivered'
    BY <2>1
  <2> QED
    BY <2>1, <2>2, <2>3 DEF Arrives
<1>4. Listening' /\ Settling'
  BY <1>2 DEF WalletInv, Listening, Settling
<1>5. KnownAccount'
  BY <1>2, <1>3 DEF WalletInv, KnownAccount
<1>6. KnownChain'
  BY <1>2, <1>3 DEF WalletInv, KnownChain
<1> QED
  BY <1>2, <1>4, <1>5, <1>6 DEF WalletInv

\* The first event arrives.
LEMMA WalletDelivery == ASSUME WalletInv, Deliver PROVE WalletInv'
<1> DEFINE event == Head(undelivered)
<1>1. /\ undelivered \in Seq(Event) /\ undelivered # << >>
      /\ undelivered' = Tail(undelivered) /\ undelivered' \in Seq(Event)
  BY DEF WalletInv, Deliver
<1>2. UNCHANGED <<account, chain, stubborn, registered, installed, step, reply, outcome>>
  BY DEF Deliver
<1>3. /\ invalidated' \in BOOLEAN /\ (invalidated => invalidated')
      /\ event.name \in registered /\ invalidates(event) => invalidated'
  BY DEF WalletInv, Deliver, invalidation
<1>4. ASSUME NEW n \in Listener, NEW w, Arrives(n, w), event.name \in registered,
             \A e \in Event : e.name = n /\ e.value # w => invalidates(e)
      PROVE  invalidated' \/ Arrives(n, w)'
  <2>1. PICK i \in DOMAIN undelivered : undelivered[i].name = n /\ undelivered[i].value # w
    BY <1>4 DEF Arrives
  <2>2. DOMAIN undelivered = 1 .. Len(undelivered) /\ Len(undelivered) \in Nat
        /\ event = undelivered[1] /\ event \in Event
        /\ Len(undelivered') = Len(undelivered) - 1
        /\ DOMAIN undelivered' = 1 .. (Len(undelivered) - 1)
        /\ \A j \in 1 .. (Len(undelivered) - 1) : undelivered'[j] = undelivered[j + 1]
    BY <1>1
  <2>3. CASE i = 1
    BY <1>3, <1>4, <2>1, <2>2, <2>3
  <2>4. CASE i # 1
    <3>1. i - 1 \in DOMAIN undelivered' /\ undelivered'[i - 1] = undelivered[i]
      BY <2>2, <2>4
    <3> QED
      BY <2>1, <3>1 DEF Arrives
  <2> QED
    BY <2>3, <2>4
<1>5. Listening' /\ Settling'
  BY <1>2, <1>3 DEF WalletInv, Deliver, lose, racing, Listening, Settling
<1>6. ASSUME step \in Request PROVE invalidated \/ event.name \in registered
  <2>1. event \in Event
    BY <1>1
  <2>2. event.name \in Listener
    BY <2>1 DEF Event, Listener
  <2> QED
    BY <1>6, <2>2 DEF WalletInv, Listening, Settling, Request
<1>7. KnownAccount'
  <2>1. \A e \in Event : e.name = "accountsChanged" /\ e.value # Selected => invalidates(e)
    BY DEF invalidates
  <2>2. Request \ {"before", "accounts"} \subseteq Request /\ "accounts" \in Request
        /\ "accountsChanged" \in Listener
    BY DEF Request, Listener
  <2> QED
    BY <1>2, <1>3, <1>4, <1>6, <2>1, <2>2 DEF WalletInv, KnownAccount
<1>8. KnownChain'
  <2>1. \A e \in Event : e.name = "chainChanged" /\ e.value # Wanted => invalidates(e)
    BY DEF invalidates
  <2>2. Request \ {"before", "accounts", "chain"} \subseteq Request /\ "chain" \in Request
        /\ "chainChanged" \in Listener
    BY DEF Request, Listener
  <2> QED
    BY <1>2, <1>3, <1>4, <1>6, <2>1, <2>2 DEF WalletInv, KnownChain
<1> QED
  BY <1>1, <1>3, <1>5, <1>7, <1>8 DEF WalletInv

\* The client's attempt, and the installation.
LEMMA WalletAttempt ==
    ASSUME WalletInv, AttemptCancelled \/ AttemptStale
    PROVE  WalletInv'
<1>1. /\ UNCHANGED <<wallet, registered, installed, invalidated, step, reply, outcome>>
      /\ race' = race \/ (race = None /\ race' = "failed" /\ step # "installing")
  BY DEF AttemptCancelled, AttemptStale, lose, racing
<1>2. Listening' /\ Settling'
  BY <1>1 DEF wallet, WalletInv, Listening, Settling
<1>3. KnownAccount' /\ KnownChain'
  BY <1>1 DEF wallet, WalletInv, KnownAccount, KnownChain, Arrives
<1> QED
  BY <1>1, <1>2, <1>3 DEF wallet, WalletInv

LEMMA WalletInstallation ==
    ASSUME WalletInv,
           \/ \E l \in Listener : Install(l) \/ \E kept \in BOOLEAN : InstallFails(l, kept)
           \/ Begin
    PROVE  WalletInv'
<1>1. UNCHANGED <<wallet, invalidated, reply, outcome>> /\ step = "installing" /\ race = None
      /\ outcome = None
  BY DEF Install, InstallFails, Begin, WalletInv, Settling
<1>2. step' \in {"installing", "before", "ended"}
  BY <1>1 DEF Install, InstallFails, Begin
<1>3. Listening'
  <2>1. stubborn' = stubborn
    BY <1>1 DEF wallet
  <2>2. CASE \E l \in Listener : Install(l)
    BY <1>1, <2>1, <2>2 DEF WalletInv, Listening, Install, Request
  <2>3. CASE \E l \in Listener : \E kept \in BOOLEAN : InstallFails(l, kept)
    <3>1. PICK l \in Listener : \E kept \in BOOLEAN : InstallFails(l, kept)
      BY <2>3
    <3>2. /\ installed' = installed \cup {l} /\ registered' \subseteq registered \cup {l}
          /\ race' = "failed" /\ step' = step
      BY <3>1 DEF InstallFails
    <3> QED
      BY <1>1, <2>1, <3>2, WalletAssumption DEF WalletInv, Listening, Request
  <2>4. CASE Begin
    BY <1>1, <2>1, <2>4 DEF WalletInv, Listening, Begin, ready, Request
  <2> QED
    BY <2>2, <2>3, <2>4
<1>4. Settling'
  BY <1>1, <1>2 DEF WalletInv, Settling, Install, InstallFails, Begin, Request
<1>5. KnownAccount' /\ KnownChain'
  BY <1>2 DEF KnownAccount, KnownChain, Request
<1> QED
  BY <1>1, <1>3, <1>4, <1>5 DEF wallet, WalletInv

\* sign(): an answer, the next request, or the end.
LEMMA WalletAnswer == ASSUME WalletInv, Answer PROVE WalletInv'
<1>1. UNCHANGED <<wallet, registered, installed, invalidated, step, race, outcome>>
  BY DEF Answer
<1>2. /\ step = "accounts" /\ reply' = Selected => account = Selected
      /\ step = "chain" /\ reply' = Wanted => chain = Wanted
  BY WalletAssumption DEF Answer
<1>3. Listening' /\ Settling'
  BY <1>1 DEF wallet, WalletInv, Listening, Settling
<1>4. KnownAccount' /\ KnownChain'
  BY <1>1, <1>2 DEF wallet, WalletInv, KnownAccount, KnownChain, Arrives
<1> QED
  BY <1>1, <1>3, <1>4 DEF wallet, WalletInv

LEMMA WalletProceed ==
    ASSUME WalletInv, Proceed
    PROVE  /\ WalletInv' /\ ~invalidated /\ outcome = None
           /\ step' = "prompt" => step = "chain" /\ reply = Wanted
           /\ race = None /\ race' = "signed" => step = "after" /\ attempt = "active"
<1>1. /\ UNCHANGED <<wallet, registered, installed, attempt, invalidated, outcome>>
      /\ step \in Request /\ reply' = None /\ acceptable /\ ~invalidated /\ attempt = "active"
  BY DEF Proceed, active
<1>2. outcome = None
  BY <1>1 DEF WalletInv, Settling, Request
<1>3. \/ step = "after" /\ step' = "ended"
         /\ race' = IF race = None THEN "signed" ELSE race
      \/ step # "after" /\ step' = Following[step] /\ race' = race
  BY DEF Proceed
<1>4. \/ step = "after" /\ step' = "ended"
      \/ step = "before" /\ step' = "accounts"
      \/ step = "accounts" /\ step' = "chain" /\ reply = Selected
      \/ step = "chain" /\ step' = "prompt" /\ reply = Wanted
      \/ /\ step \in {"prompt", "accounts_again", "chain_again", "recover"}
         /\ step' \in {"accounts_again", "chain_again", "recover", "after"}
  BY <1>1, <1>3 DEF Following, Request, acceptable
<1>5. Listening'
  BY <1>1, <1>2, <1>4 DEF wallet, WalletInv, Listening, Request
<1>6. Settling'
  BY <1>1, <1>2, <1>3, <1>4 DEF WalletInv, Settling, Request
<1>7. None # Selected /\ None # Wanted
  BY WalletAssumption
<1>8. KnownAccount' /\ KnownChain'
  BY <1>1, <1>4, <1>7 DEF wallet, WalletInv, KnownAccount, KnownChain, Arrives, Request
<1>9. race = None /\ race' = "signed" => step = "after"
  BY <1>3, WalletAssumption
<1>10. step' = "prompt" => step = "chain" /\ reply = Wanted
  BY <1>4
<1> QED
  BY <1>1, <1>2, <1>5, <1>6, <1>8, <1>9, <1>10 DEF wallet, WalletInv

LEMMA WalletEnd == ASSUME WalletInv, Stop \/ Resolve PROVE WalletInv'
<1>1. CASE Stop
  <2>1. /\ UNCHANGED <<wallet, registered, installed, invalidated, outcome>>
        /\ step \in Request /\ step' = "ended"
        /\ race' = race \/ (race = None /\ race' = "failed")
    BY <1>1 DEF Stop, lose, racing
  <2>2. Listening' /\ Settling'
    BY <2>1 DEF wallet, WalletInv, Listening, Settling, Request
  <2>3. KnownAccount' /\ KnownChain'
    BY <2>1 DEF KnownAccount, KnownChain, Request
  <2> QED
    BY <2>1, <2>2, <2>3 DEF wallet, WalletInv
<1>2. CASE Resolve
  <2>1. /\ UNCHANGED <<wallet, installed, attempt, step, reply, race>>
        /\ race # None /\ outcome = None /\ outcome' \in {"failed", "signed"}
        /\ registered' = registered \ (installed \ stubborn)
        /\ outcome' = "signed" => race = "signed" /\ installed \cap stubborn = {}
    BY <1>2 DEF Resolve, removable, WalletInv, Settling
  <2>2. /\ invalidated' \in BOOLEAN /\ (invalidated => invalidated')
        /\ race = "failed" => invalidated'
    BY <1>2 DEF Resolve, WalletInv
  <2>3. Listening'
    BY <2>1, WalletAssumption DEF wallet, WalletInv, Listening
  <2>4. Settling'
    BY <2>1, <2>2, WalletAssumption DEF WalletInv, Settling
  <2>5. KnownAccount' /\ KnownChain'
    BY <2>1, <2>2 DEF wallet, WalletInv, KnownAccount, KnownChain, Arrives
  <2> QED
    BY <2>1, <2>2, <2>3, <2>4, <2>5 DEF wallet, WalletInv
<1> QED
  BY <1>1, <1>2

LEMMA WalletStep == WalletInv /\ [Next]_vars => WalletInv'
<1> SUFFICES ASSUME WalletInv, [Next]_vars PROVE WalletInv'
  OBVIOUS
<1>1. ASSUME NEW a \in Account \cup {NoAccount}, SwitchAccount(a) PROVE WalletInv'
  BY <1>1, WalletChange DEF SwitchAccount, Event, Listener
<1>2. ASSUME NEW c \in Chain, SwitchChain(c) PROVE WalletInv'
  BY <1>2, WalletChange DEF SwitchChain, Event, Listener
<1>3. ASSUME Disconnect PROVE WalletInv'
  BY <1>3, WalletChange DEF Disconnect, Event, Listener
<1>4. CASE UNCHANGED vars
  BY <1>4 DEF vars, WalletInv, Listening, Settling, KnownAccount, KnownChain, Arrives
<1> QED
  BY <1>1, <1>2, <1>3, <1>4, WalletDelivery, WalletAttempt, WalletInstallation,
     WalletAnswer, WalletProceed, WalletEnd DEF Next

\* The wallet keeps only the listeners that it refused to remove, and none
\* after a success.
THEOREM WalletListenersRemoved == Spec => []ListenersRemoved
<1>1. WalletInv => ListenersRemoved
  BY DEF WalletInv, Listening, ListenersRemoved
<1> QED
  BY <1>1, WalletInit, WalletStep, PTL DEF Spec

\* No late prompt, and none, nor a signature, under a selection that the wallet
\* has left without an event on its way.
THEOREM WalletUnderSelection == Spec => UnderSelection
<1> DEFINE A == /\ step # "prompt" /\ step' = "prompt" =>
                      /\ outcome = None
                      /\ undelivered # << >> \/ (account = Selected /\ chain = Wanted)
                /\ race = None /\ race' = "signed" =>
                      \/ undelivered # << >>
                      \/ account = Selected /\ chain = Wanted /\ attempt = "active"
<1>1. WalletInv /\ [Next]_vars => [A]_vars
  <2> SUFFICES ASSUME WalletInv, Next PROVE A
    OBVIOUS
  <2>1. undelivered = << >> => ~Arrives("accountsChanged", Selected)
                               /\ ~Arrives("chainChanged", Wanted)
    BY DEF Arrives
  <2>2. CASE Proceed
    <3>1. ASSUME step' = "prompt" PROVE
             outcome = None /\ (undelivered # << >> \/ (account = Selected /\ chain = Wanted))
      BY <2>1, <2>2, <3>1, WalletProceed DEF WalletInv, KnownAccount, KnownChain, Request
    <3>2. ASSUME race = None, race' = "signed" PROVE
             \/ undelivered # << >>
             \/ account = Selected /\ chain = Wanted /\ attempt = "active"
      BY <2>1, <2>2, <3>2, WalletProceed DEF WalletInv, KnownAccount, KnownChain, Request
    <3> QED
      BY <3>1, <3>2
  <2>3. CASE ~Proceed
    <3>1. race' \in {race, "failed"}
      BY <2>3 DEF Next, SwitchAccount, SwitchChain, Disconnect, Emit, Deliver, lose, racing,
                  AttemptCancelled, AttemptStale, Install, InstallFails, Begin, Answer,
                  Stop, Resolve
    <3>2. step' = step \/ step' \in {"before", "ended"}
      BY <2>3 DEF Next, SwitchAccount, SwitchChain, Disconnect, Emit, Deliver,
                  AttemptCancelled, AttemptStale, Install, InstallFails, Begin, Answer,
                  Stop, Resolve
    <3> QED
      BY <3>1, <3>2, WalletAssumption
  <2> QED
    BY <2>2, <2>3
<1> QED
  BY <1>1, WalletInit, WalletStep, PTL DEF Spec, UnderSelection

-----------------------------------------------------------------------------
(* An event decides at once, and nothing decides twice: what EventSettles  *)
(* needs besides the scheduling of the promises.                           *)

Voided == invalidated \/ attempt = "cancelled"

\* A voided attempt needs no answer of the wallet any more: its race has
\* failed, or is about to before the first request.
VoidIsDecided == Voided => race # None \/ step = "installing"

\* The race and the outcome are set once; what voided an attempt stays.
Once ==
    /\ Voided => Voided'
    /\ race # None => race' = race
    /\ outcome # None => outcome' = outcome

\* A voided attempt never makes a signature its result.
NotSigned == Voided /\ race = None => race' # "signed"

LEMMA WalletDecides ==
    ASSUME WalletInv, VoidIsDecided, [Next]_vars
    PROVE  VoidIsDecided' /\ Once /\ NotSigned
<1> USE WalletAssumption DEF VoidIsDecided, Voided, Once, NotSigned
<1>1. CASE (\E a \in Account \cup {NoAccount} : SwitchAccount(a))
           \/ (\E c \in Chain : SwitchChain(c)) \/ Disconnect
  <2>1. UNCHANGED <<attempt, invalidated, step, race, outcome>>
    BY <1>1 DEF SwitchAccount, SwitchChain, Disconnect, Emit
  <2> QED
    BY <2>1
<1>2. CASE Deliver
  BY <1>2 DEF Deliver, lose, racing, invalidation
<1>3. CASE AttemptCancelled \/ AttemptStale
  BY <1>3 DEF AttemptCancelled, AttemptStale, lose, racing, wallet
<1>4. CASE \E l \in Listener : Install(l) \/ \E kept \in BOOLEAN : InstallFails(l, kept)
  BY <1>4 DEF Install, InstallFails, wallet
<1>5. CASE Begin \/ Answer
  BY <1>5 DEF Begin, Answer, active, wallet
<1>6. CASE Proceed
  BY <1>6 DEF Proceed, active, wallet
<1>7. CASE Stop
  BY <1>7 DEF Stop, lose, racing, wallet, WalletInv, Settling, Request
<1>8. CASE Resolve
  BY <1>8 DEF Resolve, wallet
<1>9. CASE UNCHANGED vars
  BY <1>9 DEF vars
<1> QED
  BY <1>1, <1>2, <1>3, <1>4, <1>5, <1>6, <1>7, <1>8, <1>9 DEF Next

\* An event of the wallet, or of the client's attempt, decides the race in the
\* step in which it is heard, though a prompt stays open.
THEOREM WalletVoidIsDecided == Spec => []VoidIsDecided
<1>1. Init => VoidIsDecided
  BY DEF Init, VoidIsDecided
<1>2. WalletInv /\ VoidIsDecided /\ [Next]_vars => VoidIsDecided'
  BY WalletDecides
<1> QED
  BY <1>1, <1>2, WalletInit, WalletStep, PTL DEF Spec

\* What was decided or told stands, and what was voided before it was decided
\* never ends in a signature, however late the answers.
THEOREM WalletDecidesOnce == Spec => [][Once /\ NotSigned]_vars
<1>1. WalletInv /\ VoidIsDecided /\ [Next]_vars => [Once /\ NotSigned]_vars
  BY WalletDecides
<1> QED
  BY <1>1, WalletInit, WalletStep, WalletVoidIsDecided, PTL DEF Spec
=============================================================================
