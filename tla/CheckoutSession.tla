--------------------------- MODULE CheckoutSession ---------------------------
(***************************************************************************)
(* One user's checkout of one event, from several browser tabs: the        *)
(* purchase that holds the seat, the hosted page opened for it at the      *)
(* payment provider, and the provider's reports of what became of the      *)
(* page.                                                                   *)
(*                                                                         *)
(* A tab's request takes the hold in one transaction, prepares the tax     *)
(* product and opens the page with calls to the provider, records the page *)
(* on the purchase in a second transaction and reads the recorded page     *)
(* back in a third.  Meanwhile the hold may lapse, be canceled, or be      *)
(* replaced by another selection of the same user.                         *)
(*                                                                         *)
(* Seats, prices and timestamps are those of Enrollment; here a selection  *)
(* is free or it is not, and the seat is always available.                 *)
(***************************************************************************)
EXTENDS Naturals, Sequences

CONSTANTS
    Tabs,
    Selections,         \* a ticket type with or without a discount code
    Free,               \* the selections that cost nothing
    MaxHolds            \* bound: purchases of the user

ASSUME CheckoutAssumption == Free \subseteq Selections /\ MaxHolds \in Nat

VARIABLES
    bought,     \* rows of event_purchase; held: hold_expires_at is ahead
    pages,      \* checkout sessions at the provider, in the order created
    tab,        \* tab[t]: what the request of t holds between its steps
    shown       \* indices of the pages whose URL was sent to the user

checkoutVars == <<bought, pages, tab, shown>>

NoPage == 0
Waiting == [at |-> "waiting"]
Refunding == {"refund-pending", "refunded"}

(* The tax product a page is opened with: the one cached by earlier        *)
(* checkouts, or another created because the caller had no cached id and   *)
(* the provider no longer remembers the key the cached one was made with.  *)
TaxProducts == {"cached", "other"}

CheckoutInit ==
    /\ bought = <<>>
    /\ pages = <<>>
    /\ tab = [t \in Tabs |-> Waiting]
    /\ shown = {}

SetTab(t, held) == tab' = [tab EXCEPT ![t] = held]
SetStatus(p, status) == bought' = [bought EXCEPT ![p].status = status]
-----------------------------------------------------------------------------
(* Taking the hold. *)

Blocking == {p \in DOMAIN bought : bought[p].status \in {"completed", "refund-pending"}}
LiveHolds == {p \in DOMAIN bought : bought[p].status = "pending" /\ bought[p].held}

(* reconcile_event_enrollment expires lapsed holds, and a live hold for    *)
(* another selection is replaced.                                          *)
ExpirePending(rows) ==
    [p \in DOMAIN rows |-> IF rows[p].status = "pending" THEN [rows[p] EXCEPT !.status = "expired"]
                           ELSE rows[p]]

NewHold(selection) ==
    [selection |-> selection, status |-> "pending", held |-> TRUE, page |-> NoPage]

AfterHold(selection, p, reused) ==
    IF selection \in Free THEN [at |-> "free", p |-> p]
    ELSE [at |-> "provision", p |-> p, reused |-> reused]

CreateCheckoutHold(t, selection) ==
    /\ tab[t] = Waiting
    /\ Blocking = {}
    /\ \/ \E p \in LiveHolds :      \* resumed
            /\ bought[p].selection = selection
            /\ IF bought[p].page = NoPage
               THEN SetTab(t, AfterHold(selection, p, TRUE)) /\ UNCHANGED shown
               ELSE shown' = shown \cup {bought[p].page} /\ UNCHANGED tab
            /\ UNCHANGED <<bought, pages>>
       \/ /\ ~\E p \in LiveHolds : bought[p].selection = selection
          /\ Len(bought) < MaxHolds
          /\ bought' = Append(ExpirePending(bought), NewHold(selection))
          /\ SetTab(t, AfterHold(selection, Len(bought) + 1, FALSE))
          /\ UNCHANGED <<pages, shown>>

(* A free ticket is completed in a transaction of its own, which refuses a *)
(* hold that lapsed or was replaced in between.                            *)
CompleteFreeCheckout(t) ==
    LET p == tab[t].p
    IN /\ tab[t].at = "free"
       /\ \/ bought[p].status = "pending" /\ bought[p].held /\ SetStatus(p, "completed")
          \/ ~(bought[p].status = "pending" /\ bought[p].held) /\ UNCHANGED bought
       /\ SetTab(t, Waiting)
       /\ UNCHANGED <<pages, shown>>
-----------------------------------------------------------------------------
(* Opening the page. *)

(* The sponsor is checked, the location and the product found or created.  *)
(* A resumed purchase is summarized without its cached ids.                *)
ProvisionTax(t) ==
    /\ tab[t].at = "provision"
    /\ \E product \in IF tab[t].reused THEN TaxProducts ELSE {"cached"} :
            SetTab(t, [at |-> "open", p |-> tab[t].p, product |-> product])
    /\ UNCHANGED <<bought, pages, shown>>

(* The provider answers a key it knows with the page it made, and refuses  *)
(* it when the parameters are not the same.                                *)
Keyed(p) == {s \in DOMAIN pages : pages[s].purchase = p}

CreateCheckoutSession(t) ==
    LET p == tab[t].p
        opened(s) == [at |-> "attach", p |-> p, page |-> s]
    IN /\ tab[t].at = "open"
       /\ \/ \E s \in Keyed(p) :
                /\ SetTab(t, IF pages[s].product = tab[t].product THEN opened(s) ELSE Waiting)
                /\ UNCHANGED pages
          \/ /\ Keyed(p) = {}
             /\ pages' = Append(pages, [purchase |-> p, product |-> tab[t].product,
                                        state |-> "open", reported |-> FALSE])
             /\ SetTab(t, opened(Len(pages) + 1))
       /\ UNCHANGED <<bought, shown>>

(* attach_checkout_session_to_event_purchase keeps a page already there    *)
(* and leaves a purchase that is no longer pending alone, without telling. *)
AttachCheckoutSession(t) ==
    LET p == tab[t].p
    IN /\ tab[t].at = "attach"
       /\ bought' = IF bought[p].status = "pending" /\ bought[p].page = NoPage
                    THEN [bought EXCEPT ![p].page = tab[t].page]
                    ELSE bought
       /\ SetTab(t, [at |-> "reload", p |-> p, page |-> tab[t].page])
       /\ UNCHANGED <<pages, shown>>

(* The user is sent to the page the purchase has, never to the one just    *)
(* opened; a purchase without a page is an error.                          *)
RedirectPage_Own(held) == {held.page}   \* mutant: the page just opened

RedirectPage(held) == {bought[held.p].page} \ {NoPage}

ReloadCheckout(t) ==
    /\ tab[t].at = "reload"
    /\ shown' = shown \cup RedirectPage(tab[t])
    /\ SetTab(t, Waiting)
    /\ UNCHANGED <<bought, pages>>

(* A provider call fails, its answer is lost, or the server stops. *)
RequestFails(t) ==
    /\ tab[t] # Waiting
    /\ SetTab(t, Waiting)
    /\ UNCHANGED <<bought, pages, shown>>
-----------------------------------------------------------------------------
(* The hold ends: by the clock, on the user's request, by the worker. *)

HoldLapses(p) ==
    /\ p \in LiveHolds
    /\ bought' = [bought EXCEPT ![p].held = FALSE]
    /\ UNCHANGED <<pages, tab, shown>>

CancelCheckout ==
    /\ LiveHolds # {}
    /\ bought' = ExpirePending(bought)
    /\ UNCHANGED <<pages, tab, shown>>

ExpireStaleHold(p) ==
    /\ bought[p].status = "pending" /\ ~bought[p].held
    /\ SetStatus(p, "expired")
    /\ UNCHANGED <<pages, tab, shown>>
-----------------------------------------------------------------------------
(* The provider's side.  An event is delivered until it is acknowledged    *)
(* with success, and may be delivered again.                               *)

PayPage(s) ==
    /\ s \in shown /\ pages[s].state = "open"
    /\ pages' = [pages EXCEPT ![s].state = "paid"]
    /\ UNCHANGED <<bought, tab, shown>>

PageExpires(s) ==
    /\ pages[s].state = "open"
    /\ pages' = [pages EXCEPT ![s].state = "expired"]
    /\ UNCHANGED <<bought, tab, shown>>

PurchaseOf(s) == {p \in DOMAIN bought : bought[p].page = s}

(* reconcile_event_purchase_for_checkout_session: fulfillable is whether   *)
(* the event still takes the attendee.  A refund is queued otherwise.      *)
Reconciled(row, fulfillable) ==
    IF row.status = "pending" /\ row.held /\ fulfillable THEN "completed"
    ELSE IF row.status \in {"pending", "expired"} THEN "refund-pending"
    ELSE row.status

HandleCompletedCheckout(s) ==
    /\ pages[s].state = "paid"
    /\ \/ \E p \in PurchaseOf(s), fulfillable \in BOOLEAN :
            SetStatus(p, Reconciled(bought[p], fulfillable))
       \/ PurchaseOf(s) = {} /\ UNCHANGED bought
    /\ pages' = [pages EXCEPT ![s].reported = TRUE]
    /\ UNCHANGED <<tab, shown>>

HandleExpiredCheckout(s) ==
    /\ pages[s].state = "expired"
    /\ \E p \in PurchaseOf(s) : bought[p].status = "pending" /\ SetStatus(p, "expired")
    /\ UNCHANGED <<pages, tab, shown>>

(* The refund worker is RefundQueue. *)
RefundCheckout(p) ==
    /\ bought[p].status = "refund-pending"
    /\ SetStatus(p, "refunded")
    /\ UNCHANGED <<pages, tab, shown>>
-----------------------------------------------------------------------------
CheckoutNext ==
    \/ \E t \in Tabs :
        \/ \E selection \in Selections : CreateCheckoutHold(t, selection)
        \/ CompleteFreeCheckout(t)
        \/ ProvisionTax(t)
        \/ CreateCheckoutSession(t)
        \/ AttachCheckoutSession(t)
        \/ ReloadCheckout(t)
        \/ RequestFails(t)
    \/ CancelCheckout
    \/ \E p \in DOMAIN bought : HoldLapses(p) \/ ExpireStaleHold(p) \/ RefundCheckout(p)
    \/ \E s \in DOMAIN pages :
        \/ PayPage(s) \/ PageExpires(s)
        \/ HandleCompletedCheckout(s) \/ HandleExpiredCheckout(s)

CheckoutSpec == CheckoutInit /\ [][CheckoutNext]_checkoutVars
-----------------------------------------------------------------------------
(* A payment whose report was acknowledged, which the provider will not    *)
(* send again, has bought the user's seat or is being given back, whatever *)
(* happened to the hold while the page was opened, recorded and paid; and  *)
(* of all payments from all tabs at most one is kept.                      *)
AcknowledgedPaymentsSettled ==
    /\ \A s \in DOMAIN pages : pages[s].reported =>
        \E p \in PurchaseOf(s) : bought[p].status \in {"completed"} \cup Refunding
    /\ \A s, z \in DOMAIN pages :
        pages[s].reported /\ pages[z].reported /\ s # z =>
            \E p \in PurchaseOf(s) \cup PurchaseOf(z) : bought[p].status \in Refunding
=============================================================================
