---------------------------- MODULE Storefront -----------------------------
(***************************************************************************)
(* A customer's page of a restaurant (apps/web, customer-ordering-shell,   *)
(* customer-cart, customer-checkout) and the public menu and order calls   *)
(* it makes (apps/api, restaurants.service), while the restaurant changes  *)
(* its menu.  The customer wants one order: he buys until the page says    *)
(* that he has, and then goes on only by changing his cart again.          *)
(***************************************************************************)
EXTENDS Naturals, Sequences, FiniteSets

CONSTANTS Dishes,      \* menu items, all of one category
          Prices,      \* prices of a dish, in cents
          MaxQuantity, \* bound: quantity of a cart line
          MaxOrders,   \* bound: orders
          MaxEdits     \* bound: the restaurant's changes of its menu

ASSUME PricesAssumption == Prices \subseteq Nat \ {0}
ASSUME QuantitiesAssumption == MaxQuantity \in Nat /\ MaxOrders \in Nat /\ MaxEdits \in Nat

VARIABLES dish,       \* dish[i]: the row of menu_items
          section,    \* the category is active
          opening,    \* the page's call for the menu
          store,      \* what the page holds
          placing,    \* its call to place the order
          orders,     \* customer_orders with their items, oldest first
          edits,      \* changes of the menu so far
          held,       \* payments of the customer that the provider has authorized
          lost        \* answers that never arrived, at the page or at the service

storeVars == <<dish, section, opening, store, placing, orders, edits, held, lost>>

Hidden == 0   \* the price of a dish that the page does not show
EmptyCart == [i \in Dishes |-> 0]
CartLines(cart) == {i \in Dishes : cart[i] > 0}
NoCall == [step |-> "none"]

StoreInit ==
  /\ dish \in [Dishes -> [price : Prices, active : BOOLEAN]]
  /\ section \in BOOLEAN
  /\ opening = [step |-> "sections"]
  /\ store = [menu |-> [i \in Dishes |-> Hidden], cart |-> EmptyCart, card |-> FALSE,
              result |-> "none", readAt |-> 0]
  /\ placing = NoCall
  /\ orders = <<>> /\ edits = 0 /\ held = 0 /\ lost = 0

-----------------------------------------------------------------------------
\* The restaurant changes a price, hides or shows a dish or the whole category.
EditDish(i, price, active) ==
  /\ edits < MaxEdits
  /\ dish[i] # [price |-> price, active |-> active]
  /\ dish' = [dish EXCEPT ![i] = [price |-> price, active |-> active]]
  /\ edits' = edits + 1
  /\ UNCHANGED <<section, opening, store, placing, orders, held, lost>>

EditSection ==
  /\ edits < MaxEdits
  /\ section' = ~section
  /\ edits' = edits + 1
  /\ UNCHANGED <<dish, opening, store, placing, orders, held, lost>>

\* getPublicRestaurantMenu reads categories and items on two connections.
ReadSections ==
  /\ opening.step = "sections"
  /\ opening' = [step |-> "dishes", section |-> section, at |-> edits]
  /\ UNCHANGED <<dish, section, store, placing, orders, edits, held, lost>>

ReadDishes ==
  /\ opening.step = "dishes"
  /\ opening' = [step |-> "answered", at |-> opening.at,
                 menu |-> [i \in Dishes |-> IF opening.section /\ dish[i].active
                                            THEN dish[i].price ELSE Hidden]]
  /\ UNCHANGED <<dish, section, store, placing, orders, edits, held, lost>>

ShowMenu ==
  /\ opening.step = "answered"
  /\ store' = [store EXCEPT !.menu = opening.menu, !.readAt = opening.at]
  /\ opening' = NoCall
  /\ UNCHANGED <<dish, section, placing, orders, edits, held, lost>>

-----------------------------------------------------------------------------
\* The cart stays editable while an order is being placed.
Browsing == store.result = "none"

SetQuantity(i, n) ==
  /\ Browsing /\ store.menu[i] # Hidden
  /\ n \in 0..MaxQuantity /\ (n = store.cart[i] + 1 \/ n + 1 = store.cart[i] \/ n = 0)
  /\ store' = [store EXCEPT !.cart[i] = n]
  /\ UNCHANGED <<dish, section, opening, placing, orders, edits, held, lost>>

SaveCard ==
  /\ Browsing /\ placing.step = "none"
  /\ store' = [store EXCEPT !.card = TRUE]
  /\ UNCHANGED <<dish, section, opening, placing, orders, edits, held, lost>>

\* What all the lines cost together.
SumOf(cost) == LET sum[s \in SUBSET DOMAIN cost] ==
                     IF s = {} THEN 0
                     ELSE LET i == CHOOSE i \in s : TRUE IN cost[i] + sum[s \ {i}]
               IN sum[DOMAIN cost]
Total(cart, price) == SumOf([i \in CartLines(cart) |-> cart[i] * price[i]])

canSubmit == CartLines(store.cart) # {} /\ store.card

\* Every submission carries a fresh idempotency key: a retry is a new order.
handleSubmitOrder ==
  /\ Browsing /\ placing.step = "none" /\ canSubmit
  /\ Len(orders) < MaxOrders /\ held < MaxOrders
  /\ placing' = [step |-> "sent", cart |-> store.cart, shown |-> Total(store.cart, store.menu),
                 readAt |-> store.readAt]
  /\ UNCHANGED <<dish, section, opening, store, orders, edits, held, lost>>

-----------------------------------------------------------------------------
Orderable(i) == dish[i].active /\ section

\* loadOrderableMenuLines: one unorderable line refuses the whole order.
OrderLines(cart) == cart
LinesRefused(cart) == \E i \in CartLines(OrderLines(cart)) : ~Orderable(i)

Subtotal_OnePerLine(call) ==
  Total([i \in Dishes |-> IF OrderLines(call.cart)[i] > 0 THEN 1 ELSE 0],
        [i \in Dishes |-> dish[i].price])
Subtotal(call) == Total(OrderLines(call.cart), [i \in Dishes |-> dish[i].price])

\* The status of the order follows the provider's answer, and a call to the provider that
\* fails, whether or not it was carried out, is a failed payment.
OrderStatus_AsAnswered(outcome, heard) == outcome
OrderStatus(outcome, heard) == IF heard /\ outcome = "AUTHORIZED" THEN "PAYMENT_AUTHORIZED" ELSE "PAYMENT_FAILED"

\* submitPublicCustomerOrder: quote, job, payment, order, items and authorization in one
\* transaction.  outcome is what the payment provider does, heard whether its answer comes.
PlaceOrder(outcome, heard) ==
  /\ placing.step = "sent" /\ ~LinesRefused(placing.cart)
  /\ orders' = Append(orders,
       [lines |-> OrderLines(placing.cart), wanted |-> placing.cart,
        orderable |-> {i \in Dishes : Orderable(i)}, subtotal |-> Subtotal(placing),
        shown |-> placing.shown, changed |-> edits > placing.readAt])
  /\ placing' = [step |-> "answered", status |-> OrderStatus(outcome, heard)]
  /\ held' = IF outcome = "AUTHORIZED" THEN held + 1 ELSE held
  /\ lost' = IF heard THEN lost ELSE lost + 1
  /\ UNCHANGED <<dish, section, opening, store, edits>>

\* The transaction fails once the provider has acted: there is no order, and an error is
\* shown, but the payment stays authorized.
LoseOrder ==
  /\ placing.step = "sent" /\ ~LinesRefused(placing.cart)
  /\ placing' = NoCall
  /\ held' = held + 1 /\ lost' = lost + 1
  /\ UNCHANGED <<dish, section, opening, store, orders, edits>>

\* menu_item_not_orderable, or a call that never reached the service: an error is shown
\* beside the cart, and the customer may try again.
RefuseOrder ==
  /\ placing.step = "sent"
  /\ placing' = NoCall
  /\ UNCHANGED <<dish, section, opening, store, orders, edits, held, lost>>

ShowResult ==
  /\ placing.step = "answered"
  /\ store' = [store EXCEPT !.result = placing.status,
                            !.cart = IF placing.status = "PAYMENT_AUTHORIZED" THEN EmptyCart ELSE @]
  /\ placing' = NoCall
  /\ UNCHANGED <<dish, section, opening, orders, edits, held, lost>>

LoseAnswer ==
  /\ placing.step = "answered"
  /\ placing' = NoCall
  /\ lost' = lost + 1
  /\ UNCHANGED <<dish, section, opening, store, orders, edits, held>>

\* handleBackToMenu keeps the menu, the cart and the card.  A customer whose order was
\* confirmed is done.
handleBackToMenu ==
  /\ store.result = "PAYMENT_FAILED"
  /\ store' = [store EXCEPT !.result = "none"]
  /\ UNCHANGED <<dish, section, opening, placing, orders, edits, held, lost>>

StoreNext ==
  \/ \E i \in Dishes, price \in Prices, active \in BOOLEAN : EditDish(i, price, active)
  \/ EditSection \/ ReadSections \/ ReadDishes \/ ShowMenu
  \/ \E i \in Dishes, n \in 0..MaxQuantity : SetQuantity(i, n)
  \/ SaveCard \/ handleSubmitOrder \/ RefuseOrder \/ ShowResult \/ LoseAnswer \/ LoseOrder \/ handleBackToMenu
  \/ \E outcome \in {"AUTHORIZED", "FAILED", "REQUIRES_ACTION"}, heard \in BOOLEAN : PlaceOrder(outcome, heard)

-----------------------------------------------------------------------------
StoreTypeOK ==
  /\ dish \in [Dishes -> [price : Prices, active : BOOLEAN]]
  /\ store.cart \in [Dishes -> 0..MaxQuantity]
  /\ store.result \in {"none", "PAYMENT_AUTHORIZED", "PAYMENT_FAILED"}
  /\ placing.step \in {"none", "sent", "answered"}
  /\ Len(orders) <= MaxOrders /\ edits <= MaxEdits

\* An order holds exactly the lines of the cart that was sent, and all of them could be
\* ordered when it was made, however old the menu on the page was.
OrderIsTheCart ==
  \A n \in DOMAIN orders :
    /\ orders[n].lines = orders[n].wanted
    /\ CartLines(orders[n].lines) \subseteq orders[n].orderable

\* The page's subtotal is what the order charges, unless the menu changed after the page
\* began to read it.
ChargedAsShown ==
  \A n \in DOMAIN orders : ~orders[n].changed => orders[n].subtotal = orders[n].shown

\* Who wants one order and tries again only when the page shows a failure has more than one
\* payment authorized only if an answer was lost: the service's to the page, the provider's
\* to the service, which then says that no payment was completed, or the provider's with
\* the transaction that was waiting for it.
PaidTwiceOnlyIfLost == held <= 1 + lost
=============================================================================
