------------------------------ MODULE Payment ------------------------------
(***************************************************************************)
(* A payment from the phone (apps/rn-wdk-exercise/app/(wallet)/send): the  *)
(* form, the camera and the address book that fill it in, the review, and  *)
(* the transfers that its button starts.  The device's contacts are shared *)
(* with the screens of address-book/.                                      *)
(*                                                                         *)
(* An amount counts units of the last digit that may be typed; 0 stands    *)
(* for every text that is no positive number.  A step is what runs between *)
(* two taps or two answers; a render and its effects belong to the step    *)
(* that causes them.                                                       *)
(***************************************************************************)
EXTENDS Naturals, FiniteSets

CONSTANTS
  Assets,       \* ALL_ASSET_CONFIGS
  NetworkOf,    \* Assets -> networks
  GrainOf,      \* Assets -> the amount that one base unit is worth
  Addresses,
  KindOf,       \* Addresses -> the format of the address
  ContactNetworks, \* CONTACT_NETWORK_OPTIONS, "evm" for null
  Merchants,    \* the addresses GET /merchants answers
  Codes,        \* QR codes: [form, path, to, amount]
  Amounts,      \* what may be typed or owned
  FirstAsset,   \* ALL_ASSET_CONFIGS[0]
  MaxPayments,  \* bound: transfers in flight
  MaxContacts   \* bound: the address book

NoAddress == ""
EvmNetworks == {"ethereum", "arbitrum", "polygon"}

\* A contact can be saved for the network of every asset (utils/addressBook.ts:40).
ASSUME PayAssumption ==
  /\ FirstAsset \in Assets /\ NetworkOf \in [Assets -> EvmNetworks \cup (ContactNetworks \ {"evm"})]
  /\ GrainOf \in [Assets -> Nat \ {0}] /\ Amounts \subseteq Nat /\ MaxPayments \in Nat
  /\ "evm" \in ContactNetworks \ EvmNetworks /\ "" \notin ContactNetworks
  /\ Merchants \subseteq Addresses
  /\ \A qr \in Codes : /\ {qr.path, qr.to} \subseteq Addresses \cup {NoAddress}
                       /\ qr.amount \in Amounts \cup {0}

VARIABLES
  sendScreen,   \* the screen on top
  draft,        \* the form of send/index
  handed,       \* its parameters scannedAddress, scannedAmount
  sendNetwork,  \* the parameter of the contact picker and of the contact form
  form,         \* the network chosen on the contact form
  contacts,     \* the address book
  review,       \* the parameters of send/confirm
  spinner,      \* its state sending
  transfers,    \* handleConfirm's in flight
  amountFor     \* history: the asset selected when the amount was put in

payForm == <<draft, handed, amountFor>>
payBook == <<sendNetwork, form, contacts>>
payRun == <<review, spinner, transfers>>
payVars == <<sendScreen, payForm, payBook, payRun>>

Screens == {"home", "send", "scan", "picker", "add", "confirm", "book", "book-add"}
Contacts == [address : Addresses, network : ContactNetworks]
Reviews == [asset : Assets, recipient : Addresses \cup {NoAddress}, amount : Amounts \cup {0}, of : Assets]
EmptyDraft == [asset |-> FirstAsset, recipient |-> NoAddress, amount |-> 0]
Nothing == [address |-> NoAddress, amount |-> 0]

PayTypeOK ==
  /\ sendScreen \in Screens
  /\ draft \in [asset : Assets, recipient : Addresses \cup {NoAddress}, amount : Amounts \cup {0}]
  /\ handed \in [address : Addresses \cup {NoAddress}, amount : Amounts \cup {0}]
  /\ sendNetwork \in {NetworkOf[a] : a \in Assets} \cup {""}
  /\ form \in ContactNetworks
  /\ contacts \in SUBSET Contacts
  /\ review \in Reviews /\ spinner \in BOOLEAN
  /\ \A t \in DOMAIN transfers : /\ transfers[t].phase \in {"none", "auth", "sending"}
                                 /\ transfers[t].review \in Reviews
                                 /\ transfers[t].raw \in Nat /\ transfers[t].here \in BOOLEAN
  /\ amountFor \in Assets

NoReview == [asset |-> FirstAsset, recipient |-> NoAddress, amount |-> 0, of |-> FirstAsset]
NoTransfer == [phase |-> "none", review |-> NoReview, raw |-> 0, here |-> FALSE]

PayInit ==
  /\ sendScreen = "home"
  /\ draft = EmptyDraft /\ handed = Nothing
  /\ sendNetwork = "" /\ form = "evm" /\ contacts = {}
  /\ review = NoReview /\ spinner = FALSE
  /\ transfers = [t \in 1..MaxPayments |-> NoTransfer]
  /\ amountFor = FirstAsset

IsEvmNetwork(network) == network \in EvmNetworks
\* ContactMatchesNetwork that forgets what "evm" stands for.
IsSameNetwork(c, network) == c = network
ContactMatchesNetwork(c, network) ==
  IF c = "evm" THEN IsEvmNetwork(network) ELSE c = network
ToContactNetwork(network) ==
  IF network \notin ContactNetworks \ {"evm"} THEN "evm" ELSE network

IsValidAddress(a, network) ==
  CASE a = NoAddress -> FALSE
    [] IsEvmNetwork(network) -> KindOf[a] = "evm"
    [] network \in {"tron", "bitcoin"} -> KindOf[a] = network
    [] OTHER -> KindOf[a] # "evm"

\* humanAmountToRaw cuts the digits an asset has no room for.
HumanAmountToRaw(amount, asset) == amount \div GrainOf[asset]

OpenSend ==
  /\ sendScreen = "home" /\ sendScreen' = "send"
  /\ UNCHANGED <<payForm, payBook, payRun>>

TypeRecipient ==
  /\ sendScreen = "send"
  /\ \E a \in Addresses \cup {NoAddress} : draft' = [draft EXCEPT !.recipient = a]
  /\ UNCHANGED <<sendScreen, handed, amountFor, payBook, payRun>>

PutAmount(n) ==
  /\ draft' = [draft EXCEPT !.amount = n]
  /\ amountFor' = draft.asset
  /\ UNCHANGED <<sendScreen, handed, payBook, payRun>>

TypeAmount == sendScreen = "send" /\ \E n \in Amounts \cup {0} : PutAmount(n)

\* The balance of the selected asset, of which nothing is shaved off.
UseMax ==
  /\ sendScreen = "send"
  /\ \E n \in Amounts : n % GrainOf[draft.asset] = 0 /\ PutAmount(n)

\* AmountAfterSwitch without the clearing.
AmountKept(asset) == draft.amount
AmountAfterSwitch(asset) == IF asset # draft.asset THEN 0 ELSE draft.amount

SelectAsset(asset) ==
  /\ sendScreen = "send"
  /\ draft' = [draft EXCEPT !.asset = asset, !.amount = AmountAfterSwitch(asset)]
  /\ UNCHANGED <<sendScreen, handed, amountFor, payBook, payRun>>

OpenScan ==
  /\ sendScreen = "send" /\ sendScreen' = "scan"
  /\ UNCHANGED <<payForm, payBook, payRun>>

OpenPicker ==
  /\ sendScreen = "send" /\ sendScreen' = "picker"
  /\ sendNetwork' = NetworkOf[draft.asset]
  /\ UNCHANGED <<payForm, form, contacts, payRun>>

\* dismissTo hands new parameters to the form underneath, whose effect runs
\* only if one of the two has another value than before.
Return(code) ==
  /\ sendScreen' = "send"
  /\ handed' = code
  /\ LET runs == code # handed
         amounts == runs /\ code.amount # 0
     IN /\ draft' = [draft EXCEPT !.recipient = IF runs /\ code.address # NoAddress THEN code.address ELSE @,
                                  !.amount = IF amounts THEN code.amount ELSE @]
        /\ amountFor' = IF amounts THEN draft.asset ELSE amountFor
  /\ sendNetwork' = ""
  /\ UNCHANGED <<form, contacts, payRun>>

\* A call of a token contract has the contract in its path and the recipient
\* in its query.  A plain address has no amount.
ParseMerchantQR(qr) ==
  [address |-> IF qr.form = "call" THEN qr.to ELSE qr.path,
   amount |-> IF qr.form = "plain" THEN 0 ELSE qr.amount]

Scan == sendScreen = "scan" /\ \E qr \in Codes : Return(ParseMerchantQR(qr))

\* Merchants have EVM addresses, and their tab is hidden on other networks.
Offered ==
  {c.address : c \in {d \in contacts : ContactMatchesNetwork(d.network, sendNetwork)}}
  \cup IF sendNetwork = "" \/ IsEvmNetwork(sendNetwork) THEN Merchants ELSE {}

SelectContact ==
  /\ sendScreen = "picker"
  /\ \E a \in Offered : Return([address |-> a, amount |-> 0])

OpenAddContact ==
  /\ \/ sendScreen = "picker" /\ sendScreen' = "add" /\ form' = ToContactNetwork(sendNetwork)
     \/ sendScreen = "book" /\ sendScreen' = "book-add" /\ form' = ToContactNetwork("")
  /\ UNCHANGED <<payForm, sendNetwork, contacts, payRun>>

ChooseNetwork ==
  /\ sendScreen \in {"add", "book-add"}
  /\ form' \in ContactNetworks
  /\ UNCHANGED <<sendScreen, payForm, sendNetwork, contacts, payRun>>

SaveContact ==
  /\ sendScreen \in {"add", "book-add"} /\ Cardinality(contacts) < MaxContacts
  /\ \E a \in Addresses : contacts' = contacts \cup {[address |-> a, network |-> form]}
  /\ sendScreen' = IF sendScreen = "add" THEN "picker" ELSE "book"
  /\ form' = "evm"
  /\ UNCHANGED <<payForm, sendNetwork, payRun>>

\* The send flow is left for the address book.
ManageContacts ==
  /\ sendScreen = "picker" /\ sendScreen' = "book"
  /\ sendNetwork' = ""
  /\ UNCHANGED <<payForm, form, contacts, payRun>>

RemoveContact ==
  /\ sendScreen = "book"
  /\ \E c \in contacts : contacts' = contacts \ {c}
  /\ UNCHANGED <<sendScreen, payForm, sendNetwork, form, payRun>>

\* The form is gone with its screen.
CloseForm ==
  draft' = EmptyDraft /\ handed' = Nothing /\ amountFor' = FirstAsset

\* What is in flight goes on when its screen is left.
Left == [t \in DOMAIN transfers |-> [transfers[t] EXCEPT !.here = FALSE]]

Back ==
  \/ /\ sendScreen = "send" /\ sendScreen' = "home" /\ CloseForm
     /\ UNCHANGED <<payBook, payRun>>
  \/ /\ sendScreen \in {"scan", "picker", "book"} /\ sendScreen' = "send" /\ sendNetwork' = ""
     /\ UNCHANGED <<payForm, form, contacts, payRun>>
  \/ /\ \/ sendScreen = "add" /\ sendScreen' = "picker"
        \/ sendScreen = "book-add" /\ sendScreen' = "book"
     /\ form' = "evm"
     /\ UNCHANGED <<payForm, sendNetwork, contacts, payRun>>
  \/ /\ sendScreen = "confirm" /\ sendScreen' = "send"
     /\ transfers' = Left /\ spinner' = FALSE /\ review' = NoReview
     /\ UNCHANGED <<payForm, payBook>>

Validates ==
  /\ draft.recipient # NoAddress
  /\ IsValidAddress(draft.recipient, NetworkOf[draft.asset])
  /\ draft.amount > 0

HandleContinue ==
  /\ sendScreen = "send" /\ Validates
  /\ sendScreen' = "confirm" /\ spinner' = FALSE
  /\ review' = [asset |-> draft.asset, recipient |-> draft.recipient,
                amount |-> draft.amount, of |-> amountFor]
  /\ UNCHANGED <<payForm, payBook, transfers>>

\* The button gives way to the spinner only when a transfer has been approved.
ShowsConfirm == sendScreen = "confirm" /\ ~spinner

HandleConfirm(t) ==
  /\ ShowsConfirm /\ transfers[t].phase = "none"
  /\ \A u \in 1..(t - 1) : transfers[u].phase # "none"
  /\ transfers' = [transfers EXCEPT ![t] = [phase |-> "auth", review |-> review, raw |-> 0, here |-> TRUE]]
  /\ UNCHANGED <<sendScreen, payForm, payBook, review, spinner>>

Deny(t) ==
  /\ transfers[t].phase = "auth"
  /\ transfers' = [transfers EXCEPT ![t] = NoTransfer]
  /\ UNCHANGED <<sendScreen, payForm, payBook, review, spinner>>

Approve(t) ==
  /\ transfers[t].phase = "auth"
  /\ transfers' = [transfers EXCEPT ![t].phase = "sending",
        ![t].raw = HumanAmountToRaw(transfers[t].review.amount, transfers[t].review.asset)]
  /\ spinner' = (spinner \/ transfers[t].here)
  /\ UNCHANGED <<sendScreen, payForm, payBook, review>>

\* The alert's button replaces whatever screen is on top by Home.
Sent(t) ==
  /\ transfers[t].phase = "sending"
  /\ transfers' = [Left EXCEPT ![t] = NoTransfer]
  /\ spinner' = FALSE /\ review' = NoReview /\ sendScreen' = "home" /\ CloseForm
  /\ UNCHANGED payBook

SendFails(t) ==
  /\ transfers[t].phase = "sending"
  /\ transfers' = [transfers EXCEPT ![t] = NoTransfer]
  /\ spinner' = (spinner /\ ~transfers[t].here)
  /\ UNCHANGED <<sendScreen, payForm, payBook, review>>

PayNext ==
  \/ OpenSend \/ TypeRecipient \/ TypeAmount \/ UseMax
  \/ \E asset \in Assets : SelectAsset(asset)
  \/ OpenScan \/ Scan \/ OpenPicker \/ SelectContact
  \/ OpenAddContact \/ ChooseNetwork \/ SaveContact \/ ManageContacts \/ RemoveContact
  \/ Back \/ HandleContinue
  \/ \E t \in 1..MaxPayments : HandleConfirm(t) \/ Deny(t) \/ Approve(t) \/ Sent(t) \/ SendFails(t)

PaySpec == PayInit /\ [][PayNext]_payVars

(***************************************************************************)
(* What leaves the phone, however form, camera, picker and token list were *)
(* used and whichever screens were left meanwhile: the recipient is valid  *)
(* on the network of the asset, the amount was put in while that asset was *)
(* selected ("an amount typed for one token means nothing in another",     *)
(* send/index.tsx:110), and what is cut off is less than a base unit.      *)
(***************************************************************************)
SentAsEntered ==
  \A t \in DOMAIN transfers : transfers[t].phase = "sending" =>
    LET r == transfers[t].review
    IN /\ IsValidAddress(r.recipient, NetworkOf[r.asset])
       /\ r.of = r.asset
       /\ transfers[t].raw * GrainOf[r.asset] <= r.amount
       /\ r.amount < (transfers[t].raw + 1) * GrainOf[r.asset]

\* "A contact saved on the preselected chain is guaranteed to appear back in
\* the picker, which filters by the same network" (utils/addressBook.ts:52).
SavedContactIsOffered ==
  [][\A c \in Contacts :
       (sendScreen = "add" /\ c \in contacts' \ contacts /\ c.network = ToContactNetwork(sendNetwork))
         => sendScreen' = "picker" /\ c.address \in Offered']_payVars
=============================================================================
