---------------------------- MODULE RequestProofs ----------------------------
(***************************************************************************)
(* Overlapping web requests, of one buyer's tabs and of the dashboards.    *)
(*                                                                         *)
(* Checkout, for any tabs, selections and holds: every acknowledged        *)
(* payment is settled.  A page is only ever recorded on the purchase it    *)
(* was opened for, and a user is only ever sent to a recorded page, so a   *)
(* paid page finds its purchase.  Only the newest purchase can be pending  *)
(* or completed, since a hold is taken when nothing blocks it and lapses   *)
(* all before it; so at most one payment is kept.                          *)
(*                                                                         *)
(* Dashboards, for any members, communities, groups and requests in        *)
(* flight: every copy of a session record, stored or held by a request, is *)
(* sound, so writing back an old copy cannot make a selection              *)
(* inconsistent: only a log-in that leaves a group selected can.  A request that is about to write a team holds the team's *)
(* lock and read, under it, that another accepted admin remains; nobody    *)
(* else takes an admin away until it has written.                          *)
(***************************************************************************)
EXTENDS CheckoutSession, DashboardAccess, SequenceTheorems, TLAPS

-----------------------------------------------------------------------------
(* The buyer's tabs. *)

Purchases ==
    [selection: Selections, status: {"pending", "expired", "completed"} \cup Refunding,
     held: BOOLEAN, page: Nat]

HostedPages ==
    [purchase: Nat, product: TaxProducts, state: {"open", "paid", "expired"}, reported: BOOLEAN]

Requests ==
    {Waiting} \cup [at: {"free"}, p: Nat] \cup [at: {"provision"}, p: Nat, reused: BOOLEAN]
    \cup [at: {"open"}, p: Nat, product: TaxProducts] \cup [at: {"attach", "reload"}, p: Nat, page: Nat]

CheckoutTypes ==
    /\ bought \in Seq(Purchases)
    /\ pages \in Seq(HostedPages)
    /\ tab \in [Tabs -> Requests]

\* What a request holds is of a purchase that exists, and a page it is about
\* to record was opened for that purchase.
TabsKnow ==
    \A t \in Tabs :
        /\ tab[t] # Waiting => tab[t].p \in DOMAIN bought
        /\ tab[t].at = "attach" => tab[t].page \in DOMAIN pages /\ pages[tab[t].page].purchase = tab[t].p

\* A recorded page was opened for the purchase that it is recorded on.
PagesOwned ==
    \A p \in DOMAIN bought : bought[p].page # NoPage =>
        bought[p].page \in DOMAIN pages /\ pages[bought[p].page].purchase = p

\* Users only see recorded pages, and only pay pages they see.
ShownRecorded == \A s \in shown : s # NoPage /\ \E p \in DOMAIN bought : bought[p].page = s

PaidShown == \A s \in DOMAIN pages : pages[s].state = "paid" => s \in shown

\* Only the newest purchase is pending or completed.
NewestOpen ==
    \A p \in DOMAIN bought : bought[p].status \in {"pending", "completed"} => p = Len(bought)

\* An acknowledged payment was reconciled with its purchase.
ReportedReconciled ==
    \A s \in DOMAIN pages : pages[s].reported =>
        \E p \in DOMAIN bought : bought[p].page = s /\ bought[p].status \in {"completed"} \cup Refunding

CheckoutInv ==
    /\ CheckoutTypes /\ TabsKnow /\ PagesOwned /\ ShownRecorded /\ PaidShown /\ NewestOpen
    /\ ReportedReconciled

LEMMA InitCheckoutInv == CheckoutInit => CheckoutInv
  BY DEF CheckoutInit, CheckoutInv, CheckoutTypes, Requests, TabsKnow, PagesOwned, ShownRecorded,
         PaidShown, NewestOpen, ReportedReconciled, Waiting

LEMMA Expired ==
  ASSUME NEW rows \in Seq(Purchases)
  PROVE  /\ ExpirePending(rows) \in Seq(Purchases)
         /\ Len(ExpirePending(rows)) = Len(rows)
         /\ DOMAIN ExpirePending(rows) = DOMAIN rows
         /\ \A p \in DOMAIN rows :
              /\ ExpirePending(rows)[p].page = rows[p].page
              /\ ExpirePending(rows)[p].status = IF rows[p].status = "pending" THEN "expired"
                                                 ELSE rows[p].status
  <1>. DEFINE e == ExpirePending(rows)
  <1>1. DOMAIN e = 1..Len(rows) /\ Len(rows) \in Nat
    BY DEF ExpirePending
  <1>2. \A p \in 1..Len(rows) : e[p] \in Purchases
    <2>1. \A r \in Purchases : [r EXCEPT !.status = "expired"] \in Purchases
      BY DEF Purchases
    <2>2. \A p \in 1..Len(rows) : rows[p] \in Purchases
      OBVIOUS
    <2>. QED
      BY <2>1, <2>2 DEF ExpirePending
  <1>3. e \in Seq(Purchases)
    BY <1>1, <1>2 DEF ExpirePending
  <1>4. \A p \in 1..Len(rows) : /\ e[p].page = rows[p].page
                                /\ e[p].status = IF rows[p].status = "pending" THEN "expired"
                                                 ELSE rows[p].status
    BY DEF ExpirePending, Purchases
  <1>. QED
    BY <1>1, <1>3, <1>4

\* Pages stay recorded and payments stay settled while purchases move on.
LEMMA PaymentsKept ==
  ASSUME CheckoutInv, UNCHANGED pages, DOMAIN bought \subseteq DOMAIN bought',
         \A p \in DOMAIN bought : bought[p].page # NoPage => bought'[p].page = bought[p].page,
         \A p \in DOMAIN bought : bought[p].status \in {"completed"} \cup Refunding =>
                                  bought'[p].status \in {"completed"} \cup Refunding
  PROVE  /\ ReportedReconciled'
         /\ \A s \in shown : s # NoPage /\ \E p \in DOMAIN bought' : bought'[p].page = s
  <1>1. ASSUME NEW s \in DOMAIN pages, pages[s].reported
        PROVE  \E p \in DOMAIN bought' :
                   bought'[p].page = s /\ bought'[p].status \in {"completed"} \cup Refunding
    <2>1. PICK p \in DOMAIN bought :
              bought[p].page = s /\ bought[p].status \in {"completed"} \cup Refunding
      BY <1>1 DEF CheckoutInv, ReportedReconciled
    <2>2. s # NoPage
      BY DEF CheckoutInv, CheckoutTypes, NoPage
    <2>. QED
      BY <2>1, <2>2
  <1>2. ASSUME NEW s \in shown
        PROVE  s # NoPage /\ \E p \in DOMAIN bought' : bought'[p].page = s
    <2>1. PICK p \in DOMAIN bought : bought[p].page = s
      BY DEF CheckoutInv, ShownRecorded
    <2>. QED
      BY <2>1 DEF CheckoutInv, ShownRecorded
  <1>3. ReportedReconciled'
    BY <1>1 DEF ReportedReconciled
  <1>. QED
    BY <1>2, <1>3

LEMMA StatusSet ==
  ASSUME CheckoutInv, NEW p \in DOMAIN bought, NEW status, SetStatus(p, status),
         status \in {"pending", "expired", "completed"} \cup Refunding
  PROVE  /\ bought' \in Seq(Purchases) /\ DOMAIN bought' = DOMAIN bought /\ Len(bought') = Len(bought)
         /\ \A q \in DOMAIN bought : bought'[q].page = bought[q].page
         /\ \A q \in DOMAIN bought : q # p => bought'[q].status = bought[q].status
         /\ bought'[p].status = status
  <1>0. bought \in Seq(Purchases)
    BY DEF CheckoutInv, CheckoutTypes
  <1>1. bought' = [bought EXCEPT ![p] = [bought[p] EXCEPT !.status = status]]
    BY DEF SetStatus
  <1>2. bought[p] \in Purchases
    BY <1>0
  <1>3. [bought[p] EXCEPT !.status = status] \in Purchases
    BY <1>2 DEF Purchases, Refunding
  <1>4. bought' \in Seq(Purchases) /\ DOMAIN bought' = DOMAIN bought /\ Len(bought') = Len(bought)
    BY <1>0, <1>1, <1>3
  <1>5. bought'[p].page = bought[p].page /\ bought'[p].status = status
    BY <1>1, <1>2 DEF Purchases
  <1>6. \A q \in DOMAIN bought : q # p => bought'[q] = bought[q]
    BY <1>1
  <1>. QED
    BY <1>4, <1>5, <1>6

\* A step that moves the status of one purchase.
LEMMA StatusMoves ==
  ASSUME CheckoutInv, NEW p \in DOMAIN bought, NEW status, SetStatus(p, status),
         status \in {"expired", "completed"} \cup Refunding,
         bought[p].status = "pending" \/ status \in Refunding,
         UNCHANGED <<pages, shown>>
  PROVE  /\ bought' \in Seq(Purchases) /\ DOMAIN bought' = DOMAIN bought
         /\ PagesOwned' /\ ShownRecorded' /\ PaidShown' /\ NewestOpen' /\ ReportedReconciled'
  <1>1. /\ bought' \in Seq(Purchases) /\ DOMAIN bought' = DOMAIN bought /\ Len(bought') = Len(bought)
        /\ \A q \in DOMAIN bought : bought'[q].page = bought[q].page
        /\ \A q \in DOMAIN bought : q # p => bought'[q].status = bought[q].status
        /\ bought'[p].status = status
    BY StatusSet
  <1>2. ReportedReconciled' /\ ShownRecorded'
    <2>1. \A q \in DOMAIN bought : bought[q].status \in {"completed"} \cup Refunding =>
                                   bought'[q].status \in {"completed"} \cup Refunding
      BY <1>1 DEF Refunding
    <2>. QED
      BY <1>1, <2>1, PaymentsKept DEF ShownRecorded
  <1>3. PagesOwned' /\ PaidShown'
    BY <1>1 DEF CheckoutInv, PagesOwned, PaidShown
  <1>4. NewestOpen'
    BY <1>1 DEF CheckoutInv, NewestOpen, Refunding
  <1>. QED
    BY <1>1, <1>2, <1>3, <1>4

\* A step of one tab.
LEMMA TabMoves ==
  ASSUME CheckoutInv, NEW t \in Tabs, NEW held \in Requests, SetTab(t, held),
         held # Waiting => held.p \in DOMAIN bought',
         held.at = "attach" => held.page \in DOMAIN pages' /\ pages'[held.page].purchase = held.p,
         DOMAIN bought \subseteq DOMAIN bought', DOMAIN pages \subseteq DOMAIN pages',
         \A s \in DOMAIN pages : pages'[s].purchase = pages[s].purchase
  PROVE  tab' \in [Tabs -> Requests] /\ TabsKnow'
  <1>1. tab' \in [Tabs -> Requests] /\ tab'[t] = held /\ \A u \in Tabs : u # t => tab'[u] = tab[u]
    BY DEF CheckoutInv, CheckoutTypes, SetTab
  <1>2. \A u \in Tabs :
          /\ tab'[u] # Waiting => tab'[u].p \in DOMAIN bought'
          /\ tab'[u].at = "attach" =>
                tab'[u].page \in DOMAIN pages' /\ pages'[tab'[u].page].purchase = tab'[u].p
    BY <1>1 DEF CheckoutInv, TabsKnow
  <1>. QED
    BY <1>1, <1>2 DEF TabsKnow, Waiting

LEMMA WaitingRequest == Waiting \in Requests /\ Waiting.at # "attach"
  BY DEF Waiting, Requests

LEMMA NextCheckoutInv == CheckoutInv /\ [CheckoutNext]_checkoutVars => CheckoutInv'
  <1>. SUFFICES ASSUME CheckoutInv, [CheckoutNext]_checkoutVars PROVE CheckoutInv'
    OBVIOUS
  <1>0. /\ bought \in Seq(Purchases) /\ pages \in Seq(HostedPages)
        /\ \A t \in Tabs : tab[t] \in Requests
        /\ \A t \in Tabs : tab[t] # Waiting => tab[t].p \in DOMAIN bought /\ tab[t].p \in Nat
    BY DEF CheckoutInv, CheckoutTypes, TabsKnow
  <1>1. ASSUME NEW t \in Tabs, NEW selection \in Selections, CreateCheckoutHold(t, selection)
        PROVE  CheckoutInv'
    <2>1. ASSUME NEW p \in LiveHolds, bought[p].page = NoPage, UNCHANGED <<bought, pages, shown>>,
                 SetTab(t, AfterHold(selection, p, TRUE))
          PROVE  CheckoutInv'
      <3>1. /\ p \in DOMAIN bought /\ p \in Nat
            /\ AfterHold(selection, p, TRUE) \in Requests
            /\ AfterHold(selection, p, TRUE).p = p /\ AfterHold(selection, p, TRUE).at # "attach"
        BY <1>0 DEF LiveHolds, AfterHold, Requests
      <3>2. tab' \in [Tabs -> Requests] /\ TabsKnow'
        BY <2>1, <3>1, TabMoves
      <3>. QED
        BY <2>1, <3>2 DEF CheckoutInv, CheckoutTypes, PagesOwned, ShownRecorded, PaidShown, NewestOpen,
                          ReportedReconciled
    <2>2. ASSUME NEW p \in LiveHolds, bought[p].page # NoPage, UNCHANGED <<bought, pages, tab>>,
                 shown' = shown \cup {bought[p].page}
          PROVE  CheckoutInv'
      <3>1. p \in DOMAIN bought
        BY DEF LiveHolds
      <3>2. ShownRecorded' /\ PaidShown'
        BY <2>2, <3>1 DEF CheckoutInv, ShownRecorded, PaidShown
      <3>. QED
        BY <2>2, <3>2 DEF CheckoutInv, CheckoutTypes, TabsKnow, PagesOwned, NewestOpen,
                          ReportedReconciled
    <2>3. ASSUME bought' = Append(ExpirePending(bought), NewHold(selection)), Blocking = {},
                 SetTab(t, AfterHold(selection, Len(bought) + 1, FALSE)), UNCHANGED <<pages, shown>>
          PROVE  CheckoutInv'
      <3>. DEFINE old == ExpirePending(bought)
                  new == NewHold(selection)
                  held == AfterHold(selection, Len(bought) + 1, FALSE)
      <3>1. /\ old \in Seq(Purchases) /\ Len(old) = Len(bought) /\ DOMAIN old = DOMAIN bought
            /\ \A p \in DOMAIN bought :
                 /\ old[p].page = bought[p].page
                 /\ old[p].status = IF bought[p].status = "pending" THEN "expired" ELSE bought[p].status
        BY <1>0, Expired
      <3>2. new \in Purchases /\ new.page = NoPage /\ new.status = "pending"
        BY DEF NewHold, Purchases, NoPage
      <3>3. bought' = Append(old, new)
        BY <2>3
      <3>. HIDE DEF old, new
      <3>4. /\ bought' \in Seq(Purchases) /\ Len(bought') = Len(bought) + 1 /\ Len(bought) \in Nat
            /\ DOMAIN bought' = DOMAIN bought \cup {Len(bought) + 1} /\ bought'[Len(bought) + 1] = new
            /\ \A p \in DOMAIN bought : bought'[p] = old[p]
        BY <1>0, <3>1, <3>2, <3>3
      <3>5. PagesOwned'
        BY <2>3, <3>1, <3>2, <3>4 DEF CheckoutInv, PagesOwned
      <3>6. NewestOpen'
        <4>1. \A p \in DOMAIN bought : bought[p].status # "completed"
          BY <2>3 DEF Blocking
        <4>2. \A p \in DOMAIN bought : bought'[p].status \notin {"pending", "completed"}
          BY <3>1, <3>4, <4>1
        <4>. QED
          BY <3>4, <4>2 DEF NewestOpen
      <3>7. ReportedReconciled' /\ ShownRecorded'
        <4>1. \A p \in DOMAIN bought : bought[p].status \in {"completed"} \cup Refunding =>
                                       bought'[p].status \in {"completed"} \cup Refunding
          BY <3>1, <3>4 DEF Refunding
        <4>2. \A p \in DOMAIN bought : bought'[p].page = bought[p].page
          BY <3>1, <3>4
        <4>. QED
          BY <2>3, <3>4, <4>1, <4>2, PaymentsKept DEF ShownRecorded
      <3>8. held \in Requests /\ held.p \in DOMAIN bought' /\ held.at # "attach"
        BY <3>4 DEF AfterHold, Requests
      <3>9. tab' \in [Tabs -> Requests] /\ TabsKnow'
        BY <2>3, <3>4, <3>8, TabMoves
      <3>. QED
        BY <2>3, <3>4, <3>5, <3>6, <3>7, <3>9 DEF CheckoutInv, CheckoutTypes, PaidShown
    <2>. QED
      BY <1>1, <2>1, <2>2, <2>3 DEF CreateCheckoutHold
  <1>2. ASSUME NEW t \in Tabs, CompleteFreeCheckout(t) PROVE CheckoutInv'
    <2>1. /\ tab[t].at = "free" /\ tab[t] # Waiting /\ SetTab(t, Waiting) /\ UNCHANGED <<pages, shown>>
          /\ tab[t].p \in DOMAIN bought
      BY <1>0, <1>2 DEF CompleteFreeCheckout, Waiting
    <2>2. CASE bought[tab[t].p].status = "pending" /\ SetStatus(tab[t].p, "completed")
      <3>1. /\ bought' \in Seq(Purchases) /\ DOMAIN bought' = DOMAIN bought
            /\ PagesOwned' /\ ShownRecorded' /\ PaidShown' /\ NewestOpen' /\ ReportedReconciled'
        BY <2>1, <2>2, StatusMoves
      <3>2. tab' \in [Tabs -> Requests] /\ TabsKnow'
        BY <2>1, <3>1, WaitingRequest, TabMoves
      <3>. QED
        BY <2>1, <3>1, <3>2 DEF CheckoutInv, CheckoutTypes
    <2>3. CASE UNCHANGED bought
      <3>1. tab' \in [Tabs -> Requests] /\ TabsKnow'
        BY <2>1, <2>3, WaitingRequest, TabMoves
      <3>. QED
        BY <2>1, <2>3, <3>1 DEF CheckoutInv, CheckoutTypes, PagesOwned, ShownRecorded, PaidShown,
                                NewestOpen, ReportedReconciled
    <2>. QED
      BY <1>2, <2>2, <2>3 DEF CompleteFreeCheckout
  <1>3. ASSUME NEW t \in Tabs, ProvisionTax(t) PROVE CheckoutInv'
    <2>1. PICK product \in TaxProducts : SetTab(t, [at |-> "open", p |-> tab[t].p, product |-> product])
      BY <1>3 DEF ProvisionTax, TaxProducts
    <2>2. tab[t].at = "provision" /\ tab[t] # Waiting /\ UNCHANGED <<bought, pages, shown>>
      BY <1>3 DEF ProvisionTax, Waiting
    <2>3. [at |-> "open", p |-> tab[t].p, product |-> product] \in Requests
      BY <1>0, <2>2 DEF Requests
    <2>4. tab' \in [Tabs -> Requests] /\ TabsKnow'
      BY <1>0, <2>1, <2>2, <2>3, TabMoves
    <2>. QED
      BY <2>2, <2>4 DEF CheckoutInv, CheckoutTypes, PagesOwned, ShownRecorded, PaidShown,
                        NewestOpen, ReportedReconciled
  <1>4. ASSUME NEW t \in Tabs, CreateCheckoutSession(t) PROVE CheckoutInv'
    <2>. DEFINE p == tab[t].p
                opened(s) == [at |-> "attach", p |-> p, page |-> s]
    <2>1. /\ tab[t].at = "open" /\ tab[t] # Waiting /\ UNCHANGED <<bought, shown>>
          /\ p \in DOMAIN bought /\ p \in Nat /\ tab[t].product \in TaxProducts
      BY SMTT(40), <1>0, <1>4 DEF CreateCheckoutSession, Waiting, Requests
    <2>2. ASSUME NEW s \in Keyed(p), UNCHANGED pages,
                 SetTab(t, IF pages[s].product = tab[t].product THEN opened(s) ELSE Waiting)
          PROVE  CheckoutInv'
      <3>1. s \in DOMAIN pages /\ s \in Nat /\ pages[s].purchase = p
        BY <1>0 DEF Keyed
      <3>2. opened(s) \in Requests
        BY <2>1, <3>1 DEF Requests
      <3>3. tab' \in [Tabs -> Requests] /\ TabsKnow'
        <4>1. CASE SetTab(t, opened(s))
          BY <2>1, <2>2, <3>1, <3>2, <4>1, TabMoves
        <4>2. CASE SetTab(t, Waiting)
          BY <2>1, <2>2, <4>2, WaitingRequest, TabMoves
        <4>. QED
          BY <2>2, <4>1, <4>2
      <3>. QED
        BY <2>1, <2>2, <3>3 DEF CheckoutInv, CheckoutTypes, PagesOwned, ShownRecorded, PaidShown,
                                NewestOpen, ReportedReconciled
    <2>3. ASSUME pages' = Append(pages, [purchase |-> p, product |-> tab[t].product,
                                         state |-> "open", reported |-> FALSE]),
                 SetTab(t, opened(Len(pages) + 1))
          PROVE  CheckoutInv'
      <3>. DEFINE n == Len(pages) + 1
                  new == [purchase |-> p, product |-> tab[t].product, state |-> "open", reported |-> FALSE]
      <3>1. new \in HostedPages /\ new.purchase = p /\ new.state = "open" /\ ~new.reported
        BY <2>1 DEF HostedPages
      <3>2. pages' = Append(pages, new)
        BY <2>3
      <3>. HIDE DEF new
      <3>3. /\ pages' \in Seq(HostedPages) /\ DOMAIN pages' = DOMAIN pages \cup {n} /\ n \in Nat
            /\ pages'[n] = new /\ \A s \in DOMAIN pages : pages'[s] = pages[s]
        BY <1>0, <3>1, <3>2
      <3>4. opened(n) \in Requests
        BY <2>1, <3>3 DEF Requests
      <3>5. tab' \in [Tabs -> Requests] /\ TabsKnow'
        BY <2>1, <2>3, <3>1, <3>3, <3>4, TabMoves
      <3>6. PagesOwned' /\ ShownRecorded' /\ PaidShown' /\ NewestOpen'
        BY <2>1, <3>1, <3>3 DEF CheckoutInv, PagesOwned, ShownRecorded, PaidShown, NewestOpen
      <3>7. ReportedReconciled'
        BY <2>1, <3>1, <3>3 DEF CheckoutInv, ReportedReconciled
      <3>. QED
        BY <2>1, <3>3, <3>5, <3>6, <3>7 DEF CheckoutInv, CheckoutTypes
    <2>. QED
      BY <1>4, <2>2, <2>3 DEF CreateCheckoutSession
  <1>5. ASSUME NEW t \in Tabs, AttachCheckoutSession(t) PROVE CheckoutInv'
    <2>. DEFINE p == tab[t].p
                page == tab[t].page
    <2>1. /\ tab[t] # Waiting /\ UNCHANGED <<pages, shown>> /\ p \in DOMAIN bought /\ p \in Nat
          /\ SetTab(t, [at |-> "reload", p |-> p, page |-> page])
          /\ page \in Nat /\ page \in DOMAIN pages /\ pages[page].purchase = p
      BY <1>0, <1>5 DEF AttachCheckoutSession, Waiting, CheckoutInv, TabsKnow
    <2>2. /\ bought' \in Seq(Purchases) /\ DOMAIN bought' = DOMAIN bought /\ Len(bought') = Len(bought)
          /\ \A q \in DOMAIN bought : bought'[q].status = bought[q].status
          /\ \A q \in DOMAIN bought : bought'[q].page # bought[q].page =>
                                      q = p /\ bought[q].page = NoPage /\ bought'[q].page = page
      <3>1. CASE bought' = bought
        BY <1>0, <3>1
      <3>2. CASE bought[p].page = NoPage /\ bought' = [bought EXCEPT ![p].page = page]
        <4>1. bought' = [bought EXCEPT ![p] = [bought[p] EXCEPT !.page = page]] /\ bought[p] \in Purchases
          BY <1>0, <2>1, <3>2
        <4>2. [bought[p] EXCEPT !.page = page] \in Purchases
          BY <2>1, <4>1 DEF Purchases
        <4>3. bought' \in Seq(Purchases) /\ DOMAIN bought' = DOMAIN bought /\ Len(bought') = Len(bought)
          BY <1>0, <2>1, <4>1, <4>2
        <4>4. bought'[p].page = page /\ bought'[p].status = bought[p].status
          BY <2>1, <4>1 DEF Purchases
        <4>5. \A q \in DOMAIN bought : q # p => bought'[q] = bought[q]
          BY <4>1
        <4>. QED
          BY <3>2, <4>3, <4>4, <4>5
      <3>. QED
        BY <1>5, <3>1, <3>2 DEF AttachCheckoutSession
    <2>3. [at |-> "reload", p |-> p, page |-> page] \in Requests
      BY <2>1 DEF Requests
    <2>4. tab' \in [Tabs -> Requests] /\ TabsKnow'
      BY <2>1, <2>2, <2>3, TabMoves
    <2>5. ReportedReconciled' /\ ShownRecorded'
      BY <2>1, <2>2, PaymentsKept DEF ShownRecorded
    <2>6. PagesOwned' /\ PaidShown' /\ NewestOpen'
      BY <2>1, <2>2 DEF CheckoutInv, PagesOwned, PaidShown, NewestOpen
    <2>. QED
      BY <1>0, <2>1, <2>2, <2>4, <2>5, <2>6 DEF CheckoutInv, CheckoutTypes
  <1>6. ASSUME NEW t \in Tabs, ReloadCheckout(t) PROVE CheckoutInv'
    <2>1. /\ tab[t] # Waiting /\ SetTab(t, Waiting) /\ UNCHANGED <<bought, pages>>
          /\ tab[t].p \in DOMAIN bought
      BY <1>0, <1>6 DEF ReloadCheckout, Waiting
    <2>2. tab' \in [Tabs -> Requests] /\ TabsKnow'
      BY <2>1, WaitingRequest, TabMoves
    <2>3. \A s \in shown' : s \in shown \/ (s # NoPage /\ s = bought[tab[t].p].page)
      BY <1>6 DEF ReloadCheckout, RedirectPage
    <2>4. ShownRecorded' /\ PaidShown'
      BY <1>6, <2>1, <2>3 DEF ReloadCheckout, CheckoutInv, ShownRecorded, PaidShown
    <2>. QED
      BY <2>1, <2>2, <2>4 DEF CheckoutInv, CheckoutTypes, PagesOwned, NewestOpen, ReportedReconciled
  <1>7. ASSUME NEW t \in Tabs, RequestFails(t) PROVE CheckoutInv'
    <2>1. SetTab(t, Waiting) /\ UNCHANGED <<bought, pages, shown>>
      BY <1>7 DEF RequestFails
    <2>2. tab' \in [Tabs -> Requests] /\ TabsKnow'
      BY <2>1, WaitingRequest, TabMoves
    <2>. QED
      BY <2>1, <2>2 DEF CheckoutInv, CheckoutTypes, PagesOwned, ShownRecorded, PaidShown, NewestOpen,
                        ReportedReconciled
  <1>8. CASE CancelCheckout
    <2>1. bought' = ExpirePending(bought) /\ UNCHANGED <<pages, tab, shown>>
      BY <1>8 DEF CancelCheckout
    <2>2. /\ bought' \in Seq(Purchases) /\ Len(bought') = Len(bought) /\ DOMAIN bought' = DOMAIN bought
          /\ \A p \in DOMAIN bought :
               /\ bought'[p].page = bought[p].page
               /\ bought'[p].status = IF bought[p].status = "pending" THEN "expired" ELSE bought[p].status
      BY <1>0, <2>1, Expired
    <2>3. ReportedReconciled' /\ ShownRecorded'
      <3>1. \A p \in DOMAIN bought : bought[p].status \in {"completed"} \cup Refunding =>
                                     bought'[p].status \in {"completed"} \cup Refunding
        BY <2>2 DEF Refunding
      <3>. QED
        BY <2>1, <2>2, <3>1, PaymentsKept DEF ShownRecorded
    <2>4. TabsKnow' /\ PagesOwned' /\ PaidShown' /\ NewestOpen'
      BY <2>1, <2>2 DEF CheckoutInv, TabsKnow, PagesOwned, PaidShown, NewestOpen
    <2>. QED
      BY <2>1, <2>2, <2>3, <2>4 DEF CheckoutInv, CheckoutTypes
  <1>9. ASSUME NEW p \in DOMAIN bought, HoldLapses(p) PROVE CheckoutInv'
    <2>1. bought' = [bought EXCEPT ![p] = [bought[p] EXCEPT !.held = FALSE]] /\ bought[p] \in Purchases
          /\ UNCHANGED <<pages, tab, shown>>
      BY <1>0, <1>9 DEF HoldLapses
    <2>2. [bought[p] EXCEPT !.held = FALSE] \in Purchases
      BY <2>1 DEF Purchases
    <2>3. bought' \in Seq(Purchases) /\ DOMAIN bought' = DOMAIN bought /\ Len(bought') = Len(bought)
      BY <1>0, <2>1, <2>2
    <2>4. bought'[p].page = bought[p].page /\ bought'[p].status = bought[p].status
      BY <2>1 DEF Purchases
    <2>5. \A q \in DOMAIN bought : bought'[q].page = bought[q].page /\ bought'[q].status = bought[q].status
      BY <2>1, <2>4
    <2>6. ReportedReconciled' /\ ShownRecorded'
      BY <2>1, <2>3, <2>5, PaymentsKept DEF ShownRecorded
    <2>7. TabsKnow' /\ PagesOwned' /\ PaidShown' /\ NewestOpen'
      BY <2>1, <2>3, <2>5 DEF CheckoutInv, TabsKnow, PagesOwned, PaidShown, NewestOpen
    <2>. QED
      BY <2>1, <2>3, <2>6, <2>7 DEF CheckoutInv, CheckoutTypes
  <1>10. ASSUME NEW p \in DOMAIN bought, NEW status \in {"expired"} \cup Refunding, SetStatus(p, status),
                bought[p].status = "pending" \/ status \in Refunding, UNCHANGED <<pages, tab, shown>>
         PROVE  CheckoutInv'
    <2>1. /\ bought' \in Seq(Purchases) /\ DOMAIN bought' = DOMAIN bought
          /\ PagesOwned' /\ ShownRecorded' /\ PaidShown' /\ NewestOpen' /\ ReportedReconciled'
      BY <1>10, StatusMoves
    <2>2. TabsKnow'
      BY <1>10, <2>1 DEF CheckoutInv, TabsKnow
    <2>. QED
      BY <1>10, <2>1, <2>2 DEF CheckoutInv, CheckoutTypes
  <1>11. ASSUME NEW p \in DOMAIN bought, ExpireStaleHold(p) \/ RefundCheckout(p) PROVE CheckoutInv'
    BY <1>10, <1>11 DEF ExpireStaleHold, RefundCheckout, Refunding
  <1>12. ASSUME NEW s \in DOMAIN pages, HandleExpiredCheckout(s) PROVE CheckoutInv'
    BY <1>10, <1>12 DEF HandleExpiredCheckout, PurchaseOf
  <1>13. ASSUME NEW s \in DOMAIN pages, NEW state \in {"paid", "expired"}, pages[s].state = "open",
                pages' = [pages EXCEPT ![s].state = state], state = "paid" => s \in shown,
                UNCHANGED <<bought, tab, shown>>
         PROVE  CheckoutInv'
    <2>1. pages' = [pages EXCEPT ![s] = [pages[s] EXCEPT !.state = state]] /\ pages[s] \in HostedPages
      BY <1>0, <1>13
    <2>2. [pages[s] EXCEPT !.state = state] \in HostedPages
      BY <1>13, <2>1 DEF HostedPages
    <2>3. pages' \in Seq(HostedPages) /\ DOMAIN pages' = DOMAIN pages
      BY <1>0, <2>1, <2>2
    <2>4. /\ pages'[s].purchase = pages[s].purchase /\ pages'[s].reported = pages[s].reported
          /\ pages'[s].state = state
      BY <2>1 DEF HostedPages
    <2>5. \A z \in DOMAIN pages : z # s => pages'[z] = pages[z]
      BY <2>1
    <2>6. TabsKnow' /\ PagesOwned' /\ ShownRecorded' /\ PaidShown' /\ NewestOpen'
      BY <1>13, <2>3, <2>4, <2>5
      DEF CheckoutInv, TabsKnow, PagesOwned, ShownRecorded, PaidShown, NewestOpen
    <2>7. ReportedReconciled'
      BY <1>13, <2>3, <2>4, <2>5 DEF CheckoutInv, ReportedReconciled
    <2>. QED
      BY <1>13, <2>3, <2>6, <2>7 DEF CheckoutInv, CheckoutTypes
  <1>14. ASSUME NEW s \in DOMAIN pages, PayPage(s) \/ PageExpires(s) PROVE CheckoutInv'
    BY <1>13, <1>14 DEF PayPage, PageExpires
  <1>15. ASSUME NEW s \in DOMAIN pages, HandleCompletedCheckout(s) PROVE CheckoutInv'
    <2>1. /\ pages[s].state = "paid" /\ s # NoPage /\ UNCHANGED <<tab, shown>>
          /\ pages' = [pages EXCEPT ![s] = [pages[s] EXCEPT !.reported = TRUE]] /\ pages[s] \in HostedPages
      BY <1>0, <1>15 DEF HandleCompletedCheckout, NoPage
    <2>2. PurchaseOf(s) # {}
      BY <2>1 DEF CheckoutInv, PaidShown, ShownRecorded, PurchaseOf
    <2>3. PICK p \in PurchaseOf(s), fulfillable \in BOOLEAN : SetStatus(p, Reconciled(bought[p], fulfillable))
      BY <1>15, <2>2 DEF HandleCompletedCheckout
    <2>4. p \in DOMAIN bought /\ bought[p].page = s /\ bought[p] \in Purchases
      BY <1>0, <2>3 DEF PurchaseOf
    <2>. DEFINE status == Reconciled(bought[p], fulfillable)
    <2>5. /\ status \in {"completed"} \cup Refunding
          /\ bought[p].status = "pending" \/ status \in Refunding \/ status = bought[p].status
      BY <2>4 DEF Reconciled, Refunding, Purchases
    <2>6. SetStatus(p, status)
      BY <2>3
    <2>. HIDE DEF status
    <2>7. /\ bought' \in Seq(Purchases) /\ DOMAIN bought' = DOMAIN bought /\ Len(bought') = Len(bought)
          /\ \A q \in DOMAIN bought : bought'[q].page = bought[q].page
          /\ \A q \in DOMAIN bought : q # p => bought'[q].status = bought[q].status
          /\ bought'[p].status = status
      BY <2>4, <2>5, <2>6, StatusSet
    <2>8. [pages[s] EXCEPT !.reported = TRUE] \in HostedPages
      BY <2>1 DEF HostedPages
    <2>9. pages' \in Seq(HostedPages) /\ DOMAIN pages' = DOMAIN pages
      BY <1>0, <2>1, <2>8
    <2>10. pages'[s].purchase = pages[s].purchase /\ pages'[s].state = pages[s].state
      BY <2>1 DEF HostedPages
    <2>11. \A z \in DOMAIN pages : z # s => pages'[z] = pages[z]
      BY <2>1
    <2>12. TabsKnow' /\ PagesOwned' /\ ShownRecorded' /\ PaidShown'
      <3>1. \A z \in DOMAIN pages : pages'[z].purchase = pages[z].purchase /\ pages'[z].state = pages[z].state
        BY <2>10, <2>11
      <3>2. TabsKnow'
        BY <2>1, <2>7, <2>9, <3>1 DEF CheckoutInv, TabsKnow
      <3>3. PagesOwned'
        BY <2>7, <2>9, <3>1 DEF CheckoutInv, PagesOwned
      <3>4. ShownRecorded'
        BY <2>1, <2>7 DEF CheckoutInv, ShownRecorded
      <3>5. PaidShown'
        BY <2>1, <2>9, <3>1 DEF CheckoutInv, PaidShown
      <3>. QED
        BY <3>2, <3>3, <3>4, <3>5
    <2>13. NewestOpen'
      <3>1. status \in {"pending", "completed"} => p = Len(bought)
        BY <2>4, <2>5 DEF CheckoutInv, NewestOpen, Refunding
      <3>2. \A q \in DOMAIN bought : bought[q].status \in {"pending", "completed"} => q = Len(bought)
        BY DEF CheckoutInv, NewestOpen
      <3>. QED
        BY <2>7, <3>1, <3>2 DEF NewestOpen
    <2>14. ReportedReconciled'
      <3>1. ASSUME NEW z \in DOMAIN pages', pages'[z].reported
            PROVE  \E q \in DOMAIN bought' :
                       bought'[q].page = z /\ bought'[q].status \in {"completed"} \cup Refunding
        <4>1. CASE z = s
          BY <2>4, <2>5, <2>7, <4>1
        <4>2. CASE z # s
          <5>1. PICK q \in DOMAIN bought :
                    bought[q].page = z /\ bought[q].status \in {"completed"} \cup Refunding
            BY <2>9, <2>11, <3>1, <4>2 DEF CheckoutInv, ReportedReconciled
          <5>2. q # p
            BY <2>4, <4>2, <5>1
          <5>. QED
            BY <2>7, <5>1, <5>2
        <4>. QED
          BY <4>1, <4>2
      <3>. QED
        BY <3>1 DEF ReportedReconciled
    <2>. QED
      BY <2>1, <2>7, <2>9, <2>12, <2>13, <2>14 DEF CheckoutInv, CheckoutTypes
  <1>16. CASE UNCHANGED checkoutVars
    BY <1>16 DEF checkoutVars, CheckoutInv, CheckoutTypes, TabsKnow, PagesOwned, ShownRecorded, PaidShown,
                 NewestOpen, ReportedReconciled
  <1>. QED
    BY <1>1, <1>2, <1>3, <1>4, <1>5, <1>6, <1>7, <1>8, <1>9, <1>11, <1>12, <1>14, <1>15, <1>16
    DEF CheckoutNext

\* Whatever happened to the hold while the page was opened, recorded and paid,
\* an acknowledged payment has bought the seat or is being given back, and at
\* most one of all payments is kept.
THEOREM PaymentsSettled == CheckoutSpec => []AcknowledgedPaymentsSettled
  <1>1. CheckoutInv => AcknowledgedPaymentsSettled
    <2>. SUFFICES ASSUME CheckoutInv PROVE AcknowledgedPaymentsSettled
      OBVIOUS
    <2>1. ASSUME NEW s \in DOMAIN pages, pages[s].reported
          PROVE  \E p \in PurchaseOf(s) : bought[p].status \in {"completed"} \cup Refunding
      BY <2>1 DEF CheckoutInv, ReportedReconciled, PurchaseOf
    <2>2. ASSUME NEW s \in DOMAIN pages, NEW z \in DOMAIN pages,
                 pages[s].reported, pages[z].reported, s # z
          PROVE  \E p \in PurchaseOf(s) \cup PurchaseOf(z) : bought[p].status \in Refunding
      <3>1. PICK p \in PurchaseOf(s) : bought[p].status \in {"completed"} \cup Refunding
        BY <2>1, <2>2
      <3>2. PICK q \in PurchaseOf(z) : bought[q].status \in {"completed"} \cup Refunding
        BY <2>1, <2>2
      <3>3. p # q /\ p \in DOMAIN bought /\ q \in DOMAIN bought
        BY <2>2, <3>1, <3>2 DEF PurchaseOf
      <3>4. ~(bought[p].status = "completed" /\ bought[q].status = "completed")
        BY <3>3 DEF CheckoutInv, NewestOpen
      <3>. QED
        BY <3>1, <3>2, <3>4
    <2>. QED
      BY <2>1, <2>2 DEF AcknowledgedPaymentsSettled
  <1>. QED
    BY <1>1, InitCheckoutInv, NextCheckoutInv, PTL DEF CheckoutSpec

-----------------------------------------------------------------------------
(* The dashboards. *)

Records ==
    [live: BOOLEAN, user: Members, hash: Nat, community: Communities \cup {Unset},
     group: Groups \cup {Unset}, left: BOOLEAN]

\* A record whose group, if it has one and no log-in left it, is of its
\* community.
Sound == {rec \in Records : rec.group # Unset /\ ~rec.left => rec.community = CommunityOf[rec.group]}

Changes == {"invite", "remove", "demote"}
Saving == [at: {"save"}, sid: Nat, rec: Sound]
Arrived == {q \in [at: {"log-in", "log-out", "password", "select-community", "select-group", "answer", "dashboard"},
                   sid: Nat, rec: Sound, op: Ops] : q.at = q.op.kind}
Changing == [at: {"team", "write"}, sid: Nat, rec: Sound, new: Sound, t: Teams, u: Members, change: Changes]

Held == {Absent} \cup Saving \cup Arrived \cup Changing

MemberRows == [role: {"none", "admin", "viewer"}, accepted: BOOLEAN]

AccessTypes ==
    /\ team \in [Teams -> [Members -> MemberRows]]
    /\ epoch \in [Members -> Nat]
    /\ session \in Seq(Sound)
    /\ visit \in [Visits -> Held]
    /\ teamLock \in [Teams -> Visits \cup {Unset}]

\* Who is about to write a team has locked it, and another accepted admin
\* remains.
WritersHold ==
    \A v \in Visits : visit[v].at = "write" =>
        /\ teamLock[visit[v].t] = v
        /\ ~LastAdmin(visit[v].t, visit[v].u)

AccessInv == AccessTypes /\ WritersHold

-----------------------------------------------------------------------------
(* Soundness of the selections *)

LEMMA SoundSelection ==
  ASSUME NEW rec \in Sound, NEW g \in Groups
  PROVE  [rec EXCEPT !.community = CommunityOf[g], !.group = g, !.left = FALSE] \in Sound
  BY AccessAssumption DEF Sound, Records

LEMMA SoundGroup ==
  ASSUME NEW rec \in Sound, NEW g \in Groups, CommunityOf[g] = rec.community
  PROVE  [rec EXCEPT !.group = g, !.left = FALSE] \in Sound
  BY AccessAssumption DEF Sound, Records

LEMMA SoundCommunity ==
  ASSUME NEW rec \in Sound, NEW c \in Communities
  PROVE  [rec EXCEPT !.community = c, !.group = Unset, !.left = FALSE] \in Sound
  BY DEF Sound, Records

\* What select_first_community_and_group leaves is marked as left.
LEMMA SoundFirst ==
  ASSUME NEW tm, NEW rec \in Sound
  PROVE  SelectFirst(tm, rec) \subseteq Sound
  <1>1. \A c \in Communities : [rec EXCEPT !.community = c, !.left = rec.group # Unset] \in Sound
    BY DEF Sound, Records
  <1>. QED
    BY <1>1, SoundSelection DEF SelectFirst, UserGroups, UserCommunities

LEMMA SoundSync ==
  ASSUME NEW rec \in Sound, NEW c \in Communities
  PROVE  SyncSelected(rec, c) \subseteq Sound
  <1>1. \A g \in GroupsIn(rec, c) : g \in Groups /\ CommunityOf[g] = c
    BY DEF GroupsIn, UserGroups
  <1>2. \A g \in GroupsIn(rec, c) : [rec EXCEPT !.community = c, !.group = g, !.left = FALSE] \in Sound
    BY <1>1, SoundSelection
  <1>. QED
    BY <1>2, SoundCommunity DEF SyncSelected

LEMMA SoundContexts ==
  ASSUME NEW rec \in Sound, NEW scope \in {"community", "group"}
  PROVE  \A new \in Contexts(rec, scope) : new \in Sound /\ Target(new, scope) \in Teams
  <1>. SUFFICES ASSUME NEW new \in Contexts(rec, scope)
                PROVE  new \in Sound /\ Target(new, scope) \in Teams
    OBVIOUS
  <1>1. CASE scope = "group" /\ Unset \in {rec.community, rec.group}
    <2>1. PICK g \in UserGroups(team, rec.user) :
              new = [rec EXCEPT !.community = CommunityOf[g], !.group = g, !.left = FALSE]
      BY <1>1 DEF Contexts, SelectAccessibleGroup, GroupsIn
    <2>2. g \in Groups /\ new.group = g
      BY <2>1 DEF UserGroups, Sound, Records
    <2>. QED
      BY <1>1, <2>1, <2>2, SoundSelection DEF Target, Teams
  <1>2. CASE scope = "group" /\ Unset \notin {rec.community, rec.group}
    BY <1>2 DEF Contexts, Target, Teams, Sound, Records
  <1>3. CASE scope = "community" /\ rec.community = Unset
    <2>1. PICK c \in UserCommunities(team, rec.user) : new \in SyncSelected(rec, c)
      BY <1>3 DEF Contexts, SelectAccessibleCommunity
    <2>2. c \in Communities
      BY DEF UserCommunities
    <2>3. new.community = c
      <3>1. \A g \in GroupsIn(rec, c) : [rec EXCEPT !.community = c, !.group = g, !.left = FALSE].community = c
        BY DEF Sound, Records
      <3>2. [rec EXCEPT !.community = c, !.group = Unset, !.left = FALSE].community = c
        BY DEF Sound, Records
      <3>. QED
        BY <2>1, <3>1, <3>2 DEF SyncSelected
    <2>. QED
      BY <1>3, <2>1, <2>2, <2>3, SoundSync DEF Target, Teams
  <1>4. CASE scope = "community" /\ rec.community # Unset
    BY <1>4 DEF Contexts, Target, Teams, Sound, Records
  <1>. QED
    BY <1>1, <1>2, <1>3, <1>4

-----------------------------------------------------------------------------
(* What a request holds, and how it moves on *)

LEMMA HeldShapes ==
  ASSUME NEW q \in Held
  PROVE  /\ q.at = "save" => q \in Saving
         /\ q.at \in {"log-in", "log-out", "password", "select-community", "select-group", "answer",
                      "dashboard"}
              => q \in Arrived
         /\ q.at \in {"team", "write"} => q \in Changing
  BY DEF Held, Absent, Saving, Arrived, Changing

LEMMA OpShapes ==
  ASSUME NEW q \in Arrived
  PROVE  /\ q.sid \in Nat /\ q.rec \in Sound
         /\ q.at = "log-in" => q.op.member \in Members
         /\ q.at = "select-community" => q.op.target \in Communities
         /\ q.at = "select-group" => q.op.target \in Groups
         /\ q.at = "answer" => q.op.target \in Teams
         /\ q.at = "dashboard" => /\ q.op.scope \in {"community", "group"}
                                 /\ q.op.change \in Changes \cup {"none"} /\ q.op.member \in Members
  <1>1. q.sid \in Nat /\ q.rec \in Sound /\ q.op \in Ops /\ q.at = q.op.kind
    BY DEF Arrived
  <1>. QED
    BY <1>1 DEF Ops, Changes

\* The request v goes on to anything but writing a team; the others stay.
GoesOn(v) ==
    /\ visit' \in [Visits -> Held]
    /\ visit'[v].at # "write"
    /\ \A w \in Visits \ {v} : visit'[w] = visit[w]

LEMMA Moves ==
  ASSUME AccessTypes, NEW v \in Visits, NEW q \in Held, q.at # "write",
         visit' = [visit EXCEPT ![v] = q]
  PROVE  GoesOn(v)
  BY DEF AccessTypes, GoesOn

LEMMA Replies ==
  ASSUME AccessTypes, NEW v \in Visits, Reply(v)
  PROVE  GoesOn(v)
  BY Moves DEF Reply, Held, Absent

LEMMA RepliesWith ==
  ASSUME AccessTypes, NEW v \in Visits, NEW rec \in Sound, visit[v].sid \in Nat, ReplyWith(v, rec)
  PROVE  GoesOn(v)
  <1>1. [at |-> "save", sid |-> visit[v].sid, rec |-> rec] \in Saving
    BY DEF Saving
  <1>. QED
    BY <1>1, Moves, Replies DEF ReplyWith, Held

\* Nothing changes for the writers of teams while their locks and the admins
\* of the teams they locked stay.
LEMMA WritersKept ==
  ASSUME AccessInv, NEW v \in Visits, GoesOn(v),
         \A w \in Visits \ {v} : visit[w].at = "write" =>
             /\ teamLock'[visit[w].t] = teamLock[visit[w].t]
             /\ \A u \in Members :
                   AcceptedAdmin(team', visit[w].t, u) <=> AcceptedAdmin(team, visit[w].t, u)
  PROVE  WritersHold'
  <1>. SUFFICES ASSUME NEW w \in Visits, visit'[w].at = "write"
                PROVE  teamLock'[visit'[w].t] = w /\ ~LastAdmin(visit[w].t, visit[w].u)'
    BY DEF WritersHold
  <1>1. w # v /\ visit'[w] = visit[w]
    BY DEF GoesOn
  <1>2. visit[w] \in Changing
    BY <1>1, HeldShapes DEF AccessInv, AccessTypes
  <1>3. visit[w].u \in Members
    BY <1>2 DEF Changing
  <1>4. teamLock[visit[w].t] = w /\ ~LastAdmin(visit[w].t, visit[w].u)
    BY <1>1 DEF AccessInv, WritersHold
  <1>5. ~LastAdmin(visit[w].t, visit[w].u)'
    BY <1>1, <1>3, <1>4 DEF LastAdmin
  <1>. QED
    BY <1>1, <1>4, <1>5

LEMMA Flushed ==
  ASSUME session \in Seq(Sound), NEW sid, Flush(sid)
  PROVE  session' \in Seq(Sound) /\ DOMAIN session' = DOMAIN session
         /\ \A i \in DOMAIN session : ~session[i].live => ~session'[i].live
  <1>1. CASE sid \in DOMAIN session
    <2>1. session' = [session EXCEPT ![sid] = [session[sid] EXCEPT !.live = FALSE]] /\ session[sid] \in Sound
      BY <1>1 DEF Flush
    <2>2. [session[sid] EXCEPT !.live = FALSE] \in Sound /\ ~[session[sid] EXCEPT !.live = FALSE].live
      BY <2>1 DEF Sound, Records
    <2>. QED
      BY <1>1, <2>1, <2>2
  <1>2. CASE sid \notin DOMAIN session
    <2>1. DOMAIN session' = DOMAIN session /\ \A i \in DOMAIN session : session'[i] = session[i]
      BY <1>2 DEF Flush
    <2>2. session' = session
      BY <1>2, <2>1 DEF Flush
    <2>. QED
      BY <2>2
  <1>. QED
    BY <1>1, <1>2

LEMMA Stored ==
  ASSUME NEW s \in Seq(Sound), NEW i, NEW rec \in Sound
  PROVE  [s EXCEPT ![i] = rec] \in Seq(Sound)
  <1>1. CASE i \in DOMAIN s
    BY <1>1
  <1>2. CASE i \notin DOMAIN s
    <2>1. [s EXCEPT ![i] = rec] = s
      BY <1>2
    <2>. QED
      BY <2>1
  <1>. QED
    BY <1>1, <1>2

LEMMA InitAccessInv == AccessInit => AccessInv
  <1>. SUFFICES ASSUME AccessInit PROVE AccessInv
    OBVIOUS
  <1>1. team \in [Teams -> [Members -> MemberRows]]
    <2>1. {NotMember, [role |-> "admin", accepted |-> TRUE]} \subseteq MemberRows
      BY DEF MemberRows, NotMember
    <2>. QED
      BY ZenonT(40), <2>1 DEF AccessInit
  <1>2. visit \in [Visits -> Held] /\ \A v \in Visits : visit[v].at # "write"
    BY DEF AccessInit, Held, Absent
  <1>. QED
    BY <1>1, <1>2 DEF AccessInit, AccessInv, AccessTypes, WritersHold

\* A step that leaves the teams and their locks alone.
LEMMA TeamsKept ==
  ASSUME AccessInv, NEW v \in Visits, GoesOn(v), UNCHANGED <<team, teamLock>>,
         session' \in Seq(Sound), epoch' \in [Members -> Nat]
  PROVE  AccessInv'
  <1>1. WritersHold'
    BY WritersKept
  <1>. QED
    BY <1>1 DEF AccessInv, AccessTypes, GoesOn

-----------------------------------------------------------------------------
(* The inductive step, action by action *)

LEMMA NextAccessInv == AccessInv /\ [AccessNext]_accessVars => AccessInv'
  <1>. SUFFICES ASSUME AccessInv, [AccessNext]_accessVars PROVE AccessInv'
    OBVIOUS
  <1>0. AccessTypes /\ session \in Seq(Sound) /\ epoch \in [Members -> Nat]
        /\ \A v \in Visits : visit[v] \in Held
    BY DEF AccessInv, AccessTypes
  <1>1. ASSUME NEW v \in Visits, NEW u \in Members, LogIn(v, u) PROVE AccessInv'
    <2>. DEFINE blank == [live |-> TRUE, user |-> u, hash |-> epoch[u], community |-> Unset, group |-> Unset,
                          left |-> FALSE]
    <2>1. blank \in Sound
      BY <1>0 DEF Sound, Records
    <2>2. PICK rec \in SelectFirst(team, blank) : Enter(v, [at |-> "save", sid |-> 0, rec |-> rec])
      BY <1>1 DEF LogIn
    <2>3. rec \in Sound
      BY <2>1, <2>2, SoundFirst
    <2>4. [at |-> "save", sid |-> 0, rec |-> rec] \in Held
      BY <2>3 DEF Held, Saving
    <2>5. GoesOn(v)
      BY <1>0, <2>2, <2>4, Moves DEF Enter
    <2>. QED
      BY <1>0, <1>1, <2>5, TeamsKept DEF LogIn
  <1>2. ASSUME NEW v \in Visits, NEW sid \in DOMAIN session, NEW op \in Ops, Arrive(v, sid, op)
        PROVE  AccessInv'
    <2>1. CASE /\ Enter(v, [at |-> op.kind, sid |-> sid, rec |-> session[sid], op |-> op])
               /\ UNCHANGED session
      <3>1. op.kind \in {"log-in", "log-out", "password", "select-community", "select-group", "answer", "dashboard"}
        BY DEF Ops
      <3>2. [at |-> op.kind, sid |-> sid, rec |-> session[sid], op |-> op] \in Arrived
        BY <1>0, <3>1 DEF Arrived
      <3>3. GoesOn(v)
        BY <1>0, <2>1, <3>1, <3>2, Moves DEF Enter, Held
      <3>. QED
        BY <1>0, <1>2, <2>1, <3>3, TeamsKept DEF Arrive
    <2>2. CASE Enter(v, Absent) /\ Flush(sid)
      <3>1. GoesOn(v)
        BY <1>0, <2>2, Moves DEF Enter, Held, Absent
      <3>. QED
        BY <1>0, <1>2, <2>2, <3>1, Flushed, TeamsKept DEF Arrive
    <2>. QED
      BY <1>2, <2>1, <2>2 DEF Arrive
  <1>3. ASSUME NEW v \in Visits, Save(v) PROVE AccessInv'
    <2>1. visit[v].rec \in Sound /\ visit[v].sid \in Nat
      BY <1>0, <1>3, HeldShapes DEF Save, Saving
    <2>2. session' \in Seq(Sound)
      <3>1. SaveSession(visit[v].sid, visit[v].rec)
        BY <1>3 DEF Save
      <3>2. CASE session' = Append(session, visit[v].rec)
        BY <1>0, <2>1, <3>2
      <3>3. CASE session' = [session EXCEPT ![visit[v].sid] = visit[v].rec]
        BY <1>0, <2>1, <3>3, Stored
      <3>. QED
        BY <1>0, <3>1, <3>2, <3>3 DEF SaveSession
    <2>. QED
      BY <1>0, <1>3, <2>2, Replies, TeamsKept DEF Save
  <1>4. ASSUME NEW v \in Visits, LogOut(v) PROVE AccessInv'
    BY <1>0, <1>4, Flushed, Replies, TeamsKept DEF LogOut
  <1>5. ASSUME NEW v \in Visits, visit[v].at \in {"log-in", "password", "select-community", "select-group",
                                                "answer", "dashboard"}
        PROVE  visit[v] \in Arrived /\ visit[v].sid \in Nat /\ visit[v].rec \in Sound
    BY <1>0, <1>5, HeldShapes, OpShapes
  <1>6. ASSUME NEW v \in Visits, UpdateUserPassword(v) PROVE AccessInv'
    <2>1. GoesOn(v)
      BY <1>0, <1>5, <1>6, RepliesWith DEF UpdateUserPassword
    <2>2. epoch' \in [Members -> Nat]
      <3>1. visit[v].rec.user \in Members
        BY <1>5, <1>6 DEF UpdateUserPassword, Sound, Records
      <3>. QED
        BY <1>0, <1>6, <3>1 DEF UpdateUserPassword
    <2>. QED
      BY <1>0, <1>6, <2>1, <2>2, TeamsKept DEF UpdateUserPassword
  <1>7. ASSUME NEW v \in Visits, SelectCommunity(v) PROVE AccessInv'
    <2>1. visit[v].op.target \in Communities
      BY <1>5, <1>7, OpShapes DEF SelectCommunity
    <2>2. GoesOn(v)
      BY <1>0, <1>5, <1>7, <2>1, SoundSync, RepliesWith, Replies DEF SelectCommunity
    <2>. QED
      BY <1>0, <1>7, <2>2, TeamsKept DEF SelectCommunity
  <1>8. ASSUME NEW v \in Visits, SelectGroup(v) PROVE AccessInv'
    <2>1. visit[v].op.target \in Groups
      BY <1>5, <1>8, OpShapes DEF SelectGroup
    <2>2. GoesOn(v)
      BY <1>0, <1>5, <1>8, <2>1, SoundGroup, RepliesWith, Replies DEF SelectGroup
    <2>. QED
      BY <1>0, <1>8, <2>2, TeamsKept DEF SelectGroup
  <1>9. ASSUME NEW v \in Visits, EnterDashboard(v) PROVE AccessInv'
    <2>1. /\ visit[v].rec \in Sound /\ visit[v].sid \in Nat /\ visit[v].op.scope \in {"community", "group"}
          /\ visit[v].op.change \in Changes \cup {"none"} /\ visit[v].op.member \in Members
      BY <1>5, <1>9, OpShapes DEF EnterDashboard
    <2>2. \A rec \in Contexts(visit[v].rec, visit[v].op.scope) :
              rec \in Sound /\ Target(rec, visit[v].op.scope) \in Teams
      BY <2>1, SoundContexts
    <2>3. UNCHANGED <<team, epoch, teamLock>>
      BY <1>9 DEF EnterDashboard
    <2>4. CASE Reply(v) /\ (UNCHANGED session \/ Flush(visit[v].sid))
      BY <1>0, <2>3, <2>4, Replies, Flushed, TeamsKept
    <2>5. ASSUME NEW rec \in Contexts(visit[v].rec, visit[v].op.scope), ReplyWith(v, rec), UNCHANGED session
          PROVE  AccessInv'
      <3>1. GoesOn(v)
        BY <1>0, <2>1, <2>2, <2>5, RepliesWith
      <3>. QED
        BY <1>0, <2>3, <2>5, <3>1, TeamsKept
    <2>6. ASSUME NEW rec \in Contexts(visit[v].rec, visit[v].op.scope), UNCHANGED session,
                 visit[v].op.change # "none",
                 visit' = [visit EXCEPT ![v] =
                    [at |-> "team", sid |-> visit[v].sid, rec |-> visit[v].rec, new |-> rec,
                     t |-> Target(rec, visit[v].op.scope), u |-> visit[v].op.member,
                     change |-> visit[v].op.change]]
          PROVE  AccessInv'
      <3>1. [at |-> "team", sid |-> visit[v].sid, rec |-> visit[v].rec, new |-> rec,
             t |-> Target(rec, visit[v].op.scope), u |-> visit[v].op.member,
             change |-> visit[v].op.change] \in Changing
        BY <2>1, <2>2, <2>6 DEF Changing
      <3>2. GoesOn(v)
        BY <1>0, <2>6, <3>1, Moves DEF Held
      <3>. QED
        BY <1>0, <2>3, <2>6, <3>2, TeamsKept
    <2>. QED
      BY <1>9, <2>4, <2>5, <2>6 DEF EnterDashboard
  <1>10. ASSUME NEW v \in Visits, AddTeamMember(v) PROVE AccessInv'
    <2>. DEFINE q == visit[v]
    <2>1. q \in Changing
      BY <1>0, <1>10, HeldShapes DEF AddTeamMember
    <2>2. GoesOn(v)
      BY <1>0, <1>10, <2>1, RepliesWith DEF AddTeamMember, Changing
    <2>3. /\ team' \in [Teams -> [Members -> MemberRows]]
          /\ \A t \in Teams, u \in Members : AcceptedAdmin(team', t, u) <=> AcceptedAdmin(team, t, u)
      BY <1>0, <1>10, <2>1 DEF AddTeamMember, AccessTypes, Changing, MemberRows, NotMember, AcceptedAdmin
    <2>4. teamLock' = teamLock /\ session' = session /\ epoch' = epoch
      BY <1>10 DEF AddTeamMember
    <2>5. WritersHold'
      <3>1. \A w \in Visits : visit[w].at = "write" => visit[w].t \in Teams
        BY <1>0, HeldShapes DEF Changing
      <3>. QED
        BY <2>2, <2>3, <2>4, <3>1, WritersKept
    <2>. QED
      BY <2>2, <2>3, <2>4, <2>5 DEF AccessInv, AccessTypes, GoesOn
  <1>11. ASSUME NEW v \in Visits, ReadTeam(v) PROVE AccessInv'
    <2>. DEFINE q == visit[v]
    <2>1. q \in Changing /\ q.sid \in Nat /\ q.new \in Sound /\ q.t \in Teams /\ q.u \in Members
      BY <1>0, <1>11, HeldShapes DEF ReadTeam, Changing
    <2>2. UNCHANGED <<team, epoch, session>> /\ teamLock[q.t] = Unset
      BY <1>11 DEF ReadTeam
    <2>3. CASE ReplyWith(v, q.new) /\ UNCHANGED teamLock
      <3>1. GoesOn(v)
        BY <1>0, <2>1, <2>3, RepliesWith
      <3>. QED
        BY <1>0, <2>2, <2>3, <3>1, TeamsKept
    <2>4. CASE ~LastAdmin(q.t, q.u) /\ LockTeam(v, q.t) /\ visit' = [visit EXCEPT ![v].at = "write"]
      <3>1. visit' = [visit EXCEPT ![v] = [q EXCEPT !.at = "write"]]
        BY <1>0, <2>4 DEF AccessTypes
      <3>2. [q EXCEPT !.at = "write"] \in Changing
        BY <2>1 DEF Changing
      <3>3. /\ visit' \in [Visits -> Held] /\ visit'[v].t = q.t /\ visit'[v].u = q.u
            /\ \A w \in Visits \ {v} : visit'[w] = visit[w]
        BY <1>0, <2>1, <3>1, <3>2 DEF AccessTypes, Held, Changing
      <3>4. teamLock' \in [Teams -> Visits \cup {Unset}] /\ teamLock'[q.t] = v
            /\ \A t \in Teams \ {q.t} : teamLock'[t] = teamLock[t]
        BY <1>0, <2>1, <2>4 DEF AccessTypes, LockTeam
      <3>5. WritersHold'
        <4>. SUFFICES ASSUME NEW w \in Visits, visit'[w].at = "write"
                      PROVE  teamLock'[visit'[w].t] = w /\ ~LastAdmin(visit[w].t, visit[w].u)'
          BY DEF WritersHold
        <4>1. CASE w = v
          BY <2>2, <2>4, <3>3, <3>4, <4>1 DEF LastAdmin
        <4>2. CASE w # v
          <5>1. visit'[w] = visit[w] /\ visit[w] \in Changing
            BY <1>0, <3>3, <4>2, HeldShapes
          <5>2. teamLock[visit[w].t] = w /\ ~LastAdmin(visit[w].t, visit[w].u) /\ visit[w].t \in Teams
            BY <5>1 DEF AccessInv, WritersHold, Changing
          <5>3. visit[w].t # q.t
            BY <2>2, <5>2, UnsetIsNothing
          <5>4. ~LastAdmin(visit[w].t, visit[w].u)'
            BY <2>2, <5>1, <5>2 DEF LastAdmin
          <5>. QED
            BY <3>4, <5>1, <5>2, <5>3, <5>4
        <4>. QED
          BY <4>1, <4>2
      <3>. QED
        BY <1>0, <2>2, <3>3, <3>4, <3>5 DEF AccessInv, AccessTypes
    <2>. QED
      BY <1>11, <2>3, <2>4 DEF ReadTeam
  <1>12. ASSUME NEW v \in Visits, WriteTeam(v) PROVE AccessInv'
    <2>. DEFINE q == visit[v]
    <2>1. q \in Changing /\ q.sid \in Nat /\ q.new \in Sound /\ q.t \in Teams /\ q.u \in Members
          /\ teamLock[q.t] = v
      BY <1>0, <1>12, HeldShapes DEF WriteTeam, Changing, AccessInv, WritersHold
    <2>2. epoch' = epoch /\ session' \in Seq(Sound)
      BY <1>0, <1>12, Flushed DEF WriteTeam
    <2>3. GoesOn(v)
      BY <1>0, <1>12, <2>1, Replies, RepliesWith DEF WriteTeam
    <2>4. /\ teamLock' \in [Teams -> Visits \cup {Unset}]
          /\ \A t \in Teams : teamLock[t] # v => teamLock'[t] = teamLock[t]
      BY <1>0, <1>12 DEF WriteTeam, AccessTypes
    <2>5. team' \in [Teams -> [Members -> MemberRows]] /\ \A t \in Teams \ {q.t} : team'[t] = team[t]
      <3>. DEFINE row == IF q.change = "remove" THEN NotMember ELSE [team[q.t][q.u] EXCEPT !.role = "viewer"]
      <3>1. row \in MemberRows
        BY SMTT(40), <1>0, <2>1 DEF AccessTypes, MemberRows, NotMember
      <3>2. team' = [team EXCEPT ![q.t][q.u] = row]
        BY <1>12 DEF WriteTeam
      <3>. HIDE DEF row
      <3>. QED
        BY <1>0, <2>1, <3>1, <3>2 DEF AccessTypes
    <2>6. WritersHold'
      <3>1. ASSUME NEW w \in Visits \ {v}, visit[w].at = "write"
            PROVE  /\ teamLock'[visit[w].t] = teamLock[visit[w].t]
                   /\ team'[visit[w].t] = team[visit[w].t]
        <4>1. visit[w].t \in Teams /\ teamLock[visit[w].t] = w
          BY <1>0, <3>1, HeldShapes DEF Changing, AccessInv, WritersHold
        <4>. QED
          BY <2>1, <2>4, <2>5, <3>1, <4>1
      <3>. QED
        BY <2>3, <3>1, WritersKept DEF AcceptedAdmin
    <2>. QED
      BY <1>0, <2>2, <2>3, <2>4, <2>5, <2>6 DEF AccessInv, AccessTypes, GoesOn
  <1>13. ASSUME NEW v \in Visits, AnswerInvitation(v) PROVE AccessInv'
    <2>. DEFINE q == visit[v]
                t == q.op.target
                u == q.rec.user
    <2>1. q.sid \in Nat /\ q.rec \in Sound /\ t \in Teams /\ u \in Members /\ teamLock[t] = Unset
      BY <1>5, <1>13, OpShapes DEF AnswerInvitation, Sound, Records
    <2>2. UNCHANGED <<epoch, session, teamLock>>
      BY <1>13 DEF AnswerInvitation
    <2>3. GoesOn(v)
      BY <1>0, <1>13, <2>1, SoundFirst, Replies, RepliesWith DEF AnswerInvitation
    <2>4. team' \in [Teams -> [Members -> MemberRows]] /\ \A s \in Teams \ {t} : team'[s] = team[s]
      <3>. DEFINE row == IF q.op.accept THEN [team[t][u] EXCEPT !.accepted = TRUE] ELSE NotMember
      <3>1. row \in MemberRows
        <4>1. team[t][u] \in MemberRows
          BY <1>0, <2>1 DEF AccessTypes
        <4>2. NotMember \in MemberRows
          BY DEF MemberRows, NotMember
        <4>3. \A m \in MemberRows : [m EXCEPT !.accepted = TRUE] \in MemberRows
          BY DEF MemberRows
        <4>. QED
          BY <4>1, <4>2, <4>3
      <3>2. team' = team \/ team' = [team EXCEPT ![t][u] = row]
        BY <1>13 DEF AnswerInvitation
      <3>. HIDE DEF row, t, u
      <3>3. CASE team' = [team EXCEPT ![t][u] = row]
        BY <1>0, <2>1, <3>1, <3>3 DEF AccessTypes
      <3>. QED
        BY <1>0, <3>2, <3>3 DEF AccessTypes
    <2>5. WritersHold'
      <3>1. ASSUME NEW w \in Visits \ {v}, visit[w].at = "write"
            PROVE  team'[visit[w].t] = team[visit[w].t]
        <4>1. visit[w].t \in Teams /\ teamLock[visit[w].t] = w
          BY <1>0, <3>1, HeldShapes DEF Changing, AccessInv, WritersHold
        <4>. QED
          BY <2>1, <2>4, <4>1, UnsetIsNothing
      <3>. QED
        BY <2>2, <2>3, <3>1, WritersKept DEF AcceptedAdmin
    <2>. QED
      BY <1>0, <2>2, <2>3, <2>4, <2>5 DEF AccessInv, AccessTypes, GoesOn
  <1>14. ASSUME NEW v \in Visits, LogInOver(v) PROVE AccessInv'
    <2>. DEFINE q == visit[v]
                known == [q.rec EXCEPT !.user = q.op.member, !.hash = epoch[q.op.member]]
    <2>1. q \in Arrived /\ q.sid \in Nat /\ q.rec \in Sound /\ q.op.member \in Members
      BY <1>5, <1>14, OpShapes DEF LogInOver
    <2>2. known \in Sound
      <3>1. epoch[q.op.member] \in Nat
        BY <1>0, <2>1
      <3>. QED
        BY <2>1, <3>1 DEF Sound, Records
    <2>3. PICK rec \in SelectFirst(team, known) :
              visit' = [visit EXCEPT ![v] = [at |-> "save", sid |-> q.sid, rec |-> rec]]
      BY <1>14 DEF LogInOver
    <2>4. [at |-> "save", sid |-> q.sid, rec |-> rec] \in Held
      BY <2>1, <2>2, <2>3, SoundFirst DEF Held, Saving
    <2>5. GoesOn(v)
      BY <1>0, <2>3, <2>4, Moves
    <2>. QED
      BY <1>0, <1>14, <2>5, TeamsKept DEF LogInOver
  <1>15. CASE UNCHANGED accessVars
    BY <1>15 DEF accessVars, AccessInv, AccessTypes, WritersHold, LastAdmin
  <1>. QED
    BY <1>1, <1>2, <1>3, <1>4, <1>6, <1>7, <1>8, <1>9, <1>10, <1>11, <1>12, <1>13, <1>14,
       <1>15 DEF AccessNext

LEMMA AccessInvariance == AccessSpec => []AccessInv
  BY InitAccessInv, NextAccessInv, PTL DEF AccessSpec

-----------------------------------------------------------------------------
(* The results *)

\* The selected group is one of the selected community's in every stored
\* session, although tabs write back copies that are old, unless a log-in over
\* the session found no group to select and left the one selected before.
THEOREM SelectionsAgree == AccessSpec => []GroupLeftOnlyByLogIn
  <1>1. AccessInv => GroupLeftOnlyByLogIn
    BY DEF AccessInv, AccessTypes, GroupLeftOnlyByLogIn, Sound, Records
  <1>. QED
    BY <1>1, AccessInvariance, PTL

\* A session that was ended is not brought back by a request that still holds
\* a copy of it.
THEOREM EndedSessionsStay == AccessSpec => LoggedOutStaysOut
  <1>1. ASSUME AccessInv, [AccessNext]_accessVars
        PROVE  [\A sid \in DOMAIN session : ~session[sid].live => ~session'[sid].live]_accessVars
    <2>. SUFFICES ASSUME NEW sid \in DOMAIN session, ~session[sid].live PROVE ~session'[sid].live
      OBVIOUS
    <2>0. session \in Seq(Sound) /\ sid \in Nat \ {0} /\ \A v \in Visits : visit[v] \in Held
      BY <1>1 DEF AccessInv, AccessTypes
    <2>1. CASE UNCHANGED session
      BY <2>1
    <2>2. ASSUME NEW i, Flush(i) PROVE ~session'[sid].live
      BY <2>0, <2>2, Flushed
    <2>3. ASSUME NEW v \in Visits, Save(v) PROVE ~session'[sid].live
      <3>1. SaveSession(visit[v].sid, visit[v].rec)
        BY <2>3 DEF Save
      <3>2. CASE session' = Append(session, visit[v].rec)
        <4>1. visit[v].rec \in Sound
          BY <2>0, <2>3, HeldShapes DEF Save, Saving
        <4>. QED
          BY <2>0, <3>2, <4>1
      <3>3. CASE session' = [session EXCEPT ![visit[v].sid] = visit[v].rec] /\ session[visit[v].sid].live
        BY <2>0, <3>3
      <3>. QED
        BY <2>1, <3>1, <3>2, <3>3 DEF SaveSession
    <2>. QED
      BY ZenonT(40), <1>1, <2>1, <2>2, <2>3
      DEF AccessNext, accessVars, LogIn, LogInOver, Arrive, LogOut, UpdateUserPassword, SelectCommunity, SelectGroup,
          EnterDashboard, AddTeamMember, ReadTeam, WriteTeam, AnswerInvitation
  <1>. QED
    BY <1>1, AccessInvariance, PTL DEF AccessSpec, LoggedOutStaysOut

\* A team with an accepted admin keeps one, however removals, demotions and
\* self-removals interleave.
THEOREM TeamsKeepAnAdmin == AccessSpec => AdminKept
  <1>. DEFINE Kept == \A t \in Teams :
                 (\E u \in Members : AcceptedAdmin(team, t, u)) => \E u \in Members : AcceptedAdmin(team', t, u)
  <1>1. ASSUME AccessInv, [AccessNext]_accessVars PROVE Kept
    <2>0. AccessTypes /\ \A v \in Visits : visit[v] \in Held
      BY <1>1 DEF AccessInv, AccessTypes
    <2>1. CASE UNCHANGED team
      BY <2>1
    <2>2. ASSUME NEW v \in Visits, AddTeamMember(v) PROVE Kept
      <3>1. visit[v].t \in Teams /\ visit[v].u \in Members
        BY <2>0, <2>2, HeldShapes DEF AddTeamMember, Changing
      <3>2. \A t \in Teams, u \in Members : AcceptedAdmin(team, t, u) => AcceptedAdmin(team', t, u)
        BY <2>0, <2>2, <3>1 DEF AddTeamMember, AccessTypes, NotMember, AcceptedAdmin
      <3>. QED
        BY <3>2
    <2>3. ASSUME NEW v \in Visits, WriteTeam(v) PROVE Kept
      <3>. DEFINE q == visit[v]
      <3>1. q.t \in Teams /\ q.u \in Members /\ ~LastAdmin(q.t, q.u)
        BY <1>1, <2>0, <2>3, HeldShapes DEF WriteTeam, Changing, AccessInv, WritersHold
      <3>2. \A t \in Teams, u \in Members : ~(t = q.t /\ u = q.u) => team'[t][u] = team[t][u]
        BY <2>0, <2>3, <3>1 DEF WriteTeam, AccessTypes
      <3>3. ASSUME NEW t \in Teams, NEW u \in Members, AcceptedAdmin(team, t, u)
            PROVE  \E w \in Members : AcceptedAdmin(team', t, w)
        <4>1. CASE t = q.t /\ u = q.u
          <5>1. PICK w \in Members \ {u} : AcceptedAdmin(team, t, w)
            BY <3>1, <3>3, <4>1 DEF LastAdmin
          <5>. QED
            BY <3>2, <4>1, <5>1 DEF AcceptedAdmin
        <4>2. CASE ~(t = q.t /\ u = q.u)
          BY <3>2, <3>3, <4>2 DEF AcceptedAdmin
        <4>. QED
          BY <4>1, <4>2
      <3>. QED
        BY <3>3
    <2>4. ASSUME NEW v \in Visits, AnswerInvitation(v) PROVE Kept
      <3>1. visit[v].op.target \in Teams /\ visit[v].rec.user \in Members
        BY <2>0, <2>4, HeldShapes, OpShapes DEF AnswerInvitation, Sound, Records
      <3>2. CASE ~Accepted(team, visit[v].op.target, visit[v].rec.user)
        <4>1. \A t \in Teams, u \in Members :
                  ~(t = visit[v].op.target /\ u = visit[v].rec.user) => team'[t][u] = team[t][u]
          <5>1. \E row : team' = team \/ team' = [team EXCEPT ![visit[v].op.target][visit[v].rec.user] = row]
            BY <2>4 DEF AnswerInvitation
          <5>. QED
            BY <2>0, <3>1, <5>1 DEF AccessTypes
        <4>2. ~AcceptedAdmin(team, visit[v].op.target, visit[v].rec.user)
          BY <3>2 DEF Accepted, AcceptedAdmin
        <4>3. \A t \in Teams, u \in Members : AcceptedAdmin(team, t, u) => AcceptedAdmin(team', t, u)
          BY <4>1, <4>2 DEF AcceptedAdmin
        <4>. QED
          BY <4>3
      <3>. QED
        BY <2>1, <2>4, <3>2 DEF AnswerInvitation
    <2>. QED
      BY <1>1, <2>1, <2>2, <2>3, <2>4
      DEF AccessNext, accessVars, LogIn, LogInOver, Arrive, Save, LogOut, UpdateUserPassword, SelectCommunity,
          SelectGroup, EnterDashboard, ReadTeam
  <1>2. ASSUME AccessInv, [AccessNext]_accessVars
        PROVE  [\A t \in Teams : (\E u \in Members : AcceptedAdmin(team, t, u))
                   => \E u \in Members : AcceptedAdmin(team', t, u)]_accessVars
    BY <1>1, <1>2
  <1>. QED
    BY <1>2, AccessInvariance, PTL DEF AccessSpec, AdminKept
=============================================================================
