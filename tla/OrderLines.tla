----------------------------- MODULE OrderLines -----------------------------
(***************************************************************************)
(* What is in the cart and what it costs: choosing, changing and pricing   *)
(* lines (apps/orders/cart.py, views.py), and the lines, modifiers and     *)
(* totals of create_order (services.py, models.py), while staff edit the   *)
(* menu.  One guest in one tab; OrderCheckout has the races of sessions,   *)
(* keys and numbers.                                                       *)
(*                                                                         *)
(* The cart and an order price a line with code of their own, from reads   *)
(* at different times: create_order reads item, rules, options and source  *)
(* items in separate statements at READ COMMITTED.                         *)
(***************************************************************************)
EXTENDS ModifierSelection, SequencesExt

CONSTANTS
  StartMenu,     \* the menu when the guest arrives
  ItemPrices,    \* the prices staff may give an item
  OptionDeltas,  \* the same of an option
  GroupRules,    \* the rules staff may give a group
  LinkRules,     \* the overrides staff may give a link
  MaxEdits,      \* bound: edits of the menu
  MaxLines,      \* bound: lines in a cart
  MaxDrawn,      \* bound: line ids (uuid4) drawn
  MaxQuantity    \* bound: quantity of a line

ASSUME StartAssumption == StartMenu \in Menu
ASSUME EditAssumption ==
  /\ ItemPrices \subseteq Nat /\ OptionDeltas \subseteq Int
  /\ GroupRules \in [Groups -> SUBSET Rules]
  /\ LinkRules \in [Links -> SUBSET Overrides]
ASSUME BoundAssumption == {MaxEdits, MaxLines, MaxDrawn, MaxQuantity} \subseteq Nat

VARIABLES
  menu,    \* committed rows of the menu
  edits,   \* number of edits so far: the version of the menu
  cart,    \* the cart in the session: lines in the order they were added
  drawn,   \* line ids drawn so far
  ordered, \* items of committed orders: on_delete is PROTECT
  page,    \* what the guest has in front of them
  req      \* create_order in progress

vars == <<menu, edits, cart, drawn, ordered, page, req>>
-----------------------------------------------------------------------------
NoLine == 0
Line == [id : Nat \ {NoLine}, item : Items, quantity : Nat \ {0},
         wanted : Selection, at : Nat]      \* at (ghost): edits when added

\* error: the page tells that something was refused.  failed: a 500.  shown: the
\* lines a cart page has buttons for.
MenuPage == [kind |-> "menu", error |-> FALSE]
FailedPage == [kind |-> "failed", error |-> TRUE]
Pages == [kind : {"menu", "failed"}, error : BOOLEAN]
  \cup [kind : {"form"}, error : BOOLEAN, item : Items, line : Nat,
        offer : Selection, at : Nat]
  \cup [kind : {"cart"}, error : BOOLEAN, shown : SUBSET Nat,
        total : Int, at : Nat]

\* base and deltas are of the line in progress, rows the order's lines so far.
\* shown is the total on the cart page, shownAt when it was made (ghosts, as
\* are begunAt and withdrawn, the options switched off since the submit).
Idle == [phase |-> "idle"]
Row == [options : SUBSET Options, unit_price : Int, line_total : Int]
Active == [phase : {"get", "validate", "options", "sources", "total", "commit"},
           base : Int, deltas : Int, options : SUBSET Options, rows : Seq(Row),
           total : Int, shown : Int, shownAt : Nat, begunAt : Nat,
           withdrawn : SUBSET Options]

TypeOK ==
  /\ menu \in Menu
  /\ edits \in 0..MaxEdits
  /\ cart \in Seq(Line) /\ Len(cart) <= MaxLines
  /\ \A j, k \in DOMAIN cart : j < k => cart[j].id < cart[k].id
  /\ drawn \in 0..MaxDrawn
  /\ ordered \subseteq Items
  /\ page \in Pages
  /\ req \in Active \cup {Idle}

Init ==
  /\ menu = StartMenu
  /\ edits = 0
  /\ cart = <<>>
  /\ drawn = 0
  /\ ordered = {}
  /\ page = MenuPage
  /\ req = Idle
-----------------------------------------------------------------------------
(***************************************************************************)
(* Prices in the cart: Cart.lines leaves out what was deleted, and nothing *)
(* else.                                                                   *)
(***************************************************************************)
Exists(m, i) == m.item[i].state # "gone"

Deltas(m, options) == SumFunction([o \in options |-> m.option[o].price_delta])
Prices(m, sources) == SumFunction([p \in sources |-> m.item[p[2]].price])

unit_price(m, line) ==
  m.item[line.item].price
  + (Deltas(m, line.wanted.options)
     + Prices(m, {p \in line.wanted.sources : Exists(m, p[2])}))

line_total(m, line) == unit_price(m, line) * line.quantity

lines(m, c) == {k \in DOMAIN c : Exists(m, c[k].item)}
CartTotal(m, c) == SumFunction([k \in lines(m, c) |-> line_total(m, c[k])])

CartPage(c, error) ==
  [kind |-> "cart", error |-> error, shown |-> lines(menu, c),
   total |-> CartTotal(menu, c), at |-> edits]
FormPage(i, line, offer, error) ==
  [kind |-> "form", error |-> error, item |-> i, line |-> line,
   offer |-> offer, at |-> edits]
-----------------------------------------------------------------------------
(***************************************************************************)
(* The guest's pages and the cart.  A guest waits for an answer before     *)
(* doing anything else.                                                    *)
(***************************************************************************)
GuestActs == req = Idle /\ UNCHANGED <<menu, edits, ordered, req>>

OpenPanel(i) ==
  /\ GuestActs
  /\ page.kind = "menu"
  /\ Exists(menu, i)
  /\ page' = FormPage(i, NoLine, PanelOffer(menu, i), FALSE)
  /\ UNCHANGED <<cart, drawn>>

\* The link "Upraviť" of a line on the cart page: a 404 if the item is gone.
OpenEdit(k) ==
  /\ GuestActs
  /\ page.kind = "cart" /\ k \in page.shown
  /\ Exists(menu, cart[k].item)
  /\ page' = FormPage(cart[k].item, cart[k].id, PageOffer(menu, cart[k].item), FALSE)
  /\ UNCHANGED <<cart, drawn>>

ShowCart ==
  /\ GuestActs
  /\ page.kind # "cart"
  /\ page' = CartPage(cart, FALSE)
  /\ UNCHANGED <<cart, drawn>>

ShowMenu ==
  /\ GuestActs
  /\ page.kind # "menu"
  /\ page' = MenuPage
  /\ UNCHANGED <<cart, drawn>>

\* Cart.remove: pop, which may find nothing.
Without(c, id) ==
  IF \E k \in DOMAIN c : c[k].id = id
  THEN RemoveAt(c, CHOOSE k \in DOMAIN c : c[k].id = id)
  ELSE c

\* A plausible bug: stock is looked at, the selection is not.
Addable_ItemOnly(sel) == can_be_ordered(menu, page.item)

Addable(sel) == /\ can_be_ordered(menu, page.item)
                /\ check_modifier_selection(menu, page.item, sel)

\* A plausible bug: the newest line comes first.
CartWith_Front(line) == <<line>> \o Without(cart, page.line)

\* The new line is put last, and the edited one removed.
CartWith(line) == Append(Without(cart, page.line), line)

\* cart_add that succeeds.
AddLine(sel, quantity) ==
  LET line == [id |-> drawn + 1, item |-> page.item, quantity |-> quantity,
               wanted |-> sel, at |-> edits]
  IN  /\ GuestActs
      /\ page.kind = "form"
      /\ drawn < MaxDrawn /\ Len(CartWith(line)) <= MaxLines
      /\ Addable(sel)
      /\ cart' = CartWith(line)
      /\ drawn' = drawn + 1
      /\ page' = IF page.line = NoLine THEN MenuPage ELSE CartPage(cart', FALSE)

\* cart_add that fails: the panel tells why; the page is shown again, or fails
\* itself when the item is gone.
RefuseLine(sel) ==
  /\ GuestActs
  /\ page.kind = "form"
  /\ ~Addable(sel)
  /\ page' = IF page.line # NoLine /\ Exists(menu, page.item)
             THEN FormPage(page.item, page.line, PageOffer(menu, page.item), TRUE)
             ELSE [MenuPage EXCEPT !.error = TRUE]
  /\ UNCHANGED <<cart, drawn>>

\* The buttons + and - of a line.
UpdateQuantity(k, quantity) ==
  /\ GuestActs
  /\ page.kind = "cart" /\ k \in page.shown
  /\ quantity \in {cart[k].quantity - 1, cart[k].quantity + 1}
  /\ cart' = [cart EXCEPT ![k].quantity = quantity]
  /\ page' = CartPage(cart', FALSE)
  /\ UNCHANGED drawn

RemoveLine(k) ==
  /\ GuestActs
  /\ page.kind = "cart" /\ k \in page.shown
  /\ cart' = Without(cart, cart[k].id)
  /\ page' = CartPage(cart', FALSE)
  /\ UNCHANGED drawn
-----------------------------------------------------------------------------
(***************************************************************************)
(* order_create.                                                           *)
(***************************************************************************)

\* validate_for_checkout goes through the lines that Cart.lines returns: a line
\* whose item was deleted is not among them, and does not block.
Blocked == {k \in lines(menu, cart) : ~can_be_ordered(menu, cart[k].item)}

SubmitBlocked ==
  /\ GuestActs
  /\ page.kind = "cart" /\ page.shown # {}
  /\ Blocked # {}
  /\ page' = CartPage(cart, TRUE)
  /\ UNCHANGED <<cart, drawn>>

Submit ==
  /\ req = Idle
  /\ page.kind = "cart" /\ page.shown # {}
  /\ Blocked = {}
  /\ req' = [phase |-> "get", base |-> 0, deltas |-> 0, options |-> {},
             rows |-> <<>>, total |-> 0, shown |-> page.total,
             shownAt |-> page.at, begunAt |-> edits, withdrawn |-> {}]
  /\ UNCHANGED <<menu, edits, cart, drawn, ordered, page>>

\* The line create_order is at.
Current == cart[Len(req.rows) + 1]
ItemsIn(line) == {line.item} \cup {p[2] : p \in line.wanted.sources}
CartItems == UNION {ItemsIn(cart[k]) : k \in DOMAIN cart}
InCreation == UNCHANGED <<menu, edits, cart, drawn, ordered, page>>

GetItem ==
  /\ req.phase = "get"
  /\ can_be_ordered(menu, Current.item)
  /\ req' = [req EXCEPT !.phase = "validate", !.base = menu.item[Current.item].price]
  /\ InCreation

\* With an item its links are deleted: then no option is allowed, or required.
ModifiersValid ==
  IF Exists(menu, Current.item)
  THEN check_modifier_selection(menu, Current.item, Current.wanted)
  ELSE Current.wanted = Nothing

ValidateModifiers ==
  /\ req.phase = "validate"
  /\ ModifiersValid
  /\ req' = [req EXCEPT !.phase = "options"]
  /\ InCreation

\* The options are read again, those still active.
ReadOptions ==
  LET found == {o \in Current.wanted.options : menu.option[o].active}
  IN  /\ req.phase = "options"
      /\ req' = [req EXCEPT !.phase = "sources", !.options = found,
                            !.deltas = Deltas(menu, found)]
      /\ InCreation

\* A plausible bug: the line's total forgets the modifiers.
recalculate_BaseTotal(base, deltas, quantity) ==
  [unit_price |-> base + deltas, line_total |-> base * quantity]

\* OrderItem.recalculate, with the price of the item as it was got.
recalculate(base, deltas, quantity) ==
  [unit_price |-> base + deltas, line_total |-> (base + deltas) * quantity]

\* The source items are read again, active or not.
ReadSources ==
  LET amounts == recalculate(req.base, req.deltas + Prices(menu, Current.wanted.sources),
                             Current.quantity)
      row == [options |-> req.options, unit_price |-> amounts.unit_price,
              line_total |-> amounts.line_total]
      rows == Append(req.rows, row)
  IN  /\ req.phase = "sources"
      /\ \A p \in Current.wanted.sources : Exists(menu, p[2])
      /\ req' = [req EXCEPT !.rows = rows, !.options = {}, !.base = 0, !.deltas = 0,
                            !.phase = IF Len(rows) < Len(cart) THEN "get" ELSE "total"]
      /\ InCreation

recalculate_totals ==
  /\ req.phase = "total"
  /\ req' = [req EXCEPT !.phase = "commit", !.total =
               SumFunction([k \in DOMAIN req.rows |-> req.rows[k].line_total])]
  /\ InCreation

\* Django's foreign keys are deferred: COMMIT looks whether the items are there.
Commit ==
  /\ req.phase = "commit"
  /\ \A i \in CartItems : Exists(menu, i)
  /\ req' = Idle
  /\ cart' = <<>>
  /\ ordered' = ordered \cup CartItems
  /\ page' = MenuPage
  /\ UNCHANGED <<menu, edits, drawn>>

\* OrderValidationError: rolled back, and the cart page says why.
RefuseOrder ==
  /\ \/ req.phase = "get" /\ menu.item[Current.item].state = "off"
     \/ req.phase = "validate" /\ ~ModifiersValid
  /\ req' = Idle
  /\ page' = CartPage(cart, TRUE)
  /\ UNCHANGED <<menu, edits, cart, drawn, ordered>>

\* A plausible bug: the query leaves out what is switched off.
Missing_Off(i) == menu.item[i].state # "on"

\* Of a query by id only what was deleted is missing.
Missing(i) == ~Exists(menu, i)

\* DoesNotExist, KeyError and, of COMMIT, IntegrityError: rolled back, a page
\* that says 500.
ServerError ==
  /\ \/ req.phase = "get" /\ Missing(Current.item)
     \/ req.phase = "sources" /\ \E p \in Current.wanted.sources : Missing(p[2])
     \/ req.phase = "commit" /\ \E i \in CartItems : ~Exists(menu, i)
  /\ req' = Idle
  /\ page' = FailedPage
  /\ UNCHANGED <<menu, edits, cart, drawn, ordered>>
-----------------------------------------------------------------------------
(***************************************************************************)
(* Staff edit the menu in the admin site.                                  *)
(***************************************************************************)
Edit(m) ==
  /\ edits < MaxEdits
  /\ m # menu
  /\ menu' = m
  /\ edits' = edits + 1
  /\ req' = IF req = Idle THEN req
            ELSE [req EXCEPT !.withdrawn = @ \cup {o \in Options :
                    menu.option[o].active /\ ~m.option[o].active}]
  /\ UNCHANGED <<cart, drawn, ordered, page>>

\* PROTECT looks for committed order items.
EditItem(i) ==
  /\ Exists(menu, i)
  /\ \/ \E s \in {"on", "off"} : Edit([menu EXCEPT !.item[i].state = s])
     \/ i \notin ordered /\ Edit([menu EXCEPT !.item[i].state = "gone"])
     \/ \E p \in ItemPrices : Edit([menu EXCEPT !.item[i].price = p])

EditOption(o) ==
  \/ Edit([menu EXCEPT !.option[o].active = ~@])
  \/ \E d \in OptionDeltas : Edit([menu EXCEPT !.option[o].price_delta = d])

EditGroup(g) == \E r \in GroupRules[g] : Edit([menu EXCEPT !.group[g] = r])
EditLink(l) == \E r \in LinkRules[l] : Edit([menu EXCEPT !.link[l] = r])
-----------------------------------------------------------------------------
Guest ==
  \/ \E i \in Items : OpenPanel(i)
  \/ \E k \in DOMAIN cart : OpenEdit(k) \/ RemoveLine(k)
  \/ \E k \in DOMAIN cart : \E n \in 1..MaxQuantity : UpdateQuantity(k, n)
  \/ page.kind = "form" /\ \E sel \in Picks(page.offer) :
       RefuseLine(sel) \/ \E n \in 1..MaxQuantity : AddLine(sel, n)
  \/ ShowCart \/ ShowMenu \/ SubmitBlocked \/ Submit

create_order ==
  \/ GetItem \/ ValidateModifiers \/ ReadOptions \/ ReadSources
  \/ recalculate_totals \/ Commit \/ RefuseOrder \/ ServerError

Staff ==
  \/ \E i \in Items : EditItem(i)
  \/ \E o \in Options : EditOption(o)
  \/ \E g \in Groups : EditGroup(g)
  \/ \E l \in Links : EditLink(l)

Next == Guest \/ create_order \/ Staff

Spec == Init /\ [][Next]_vars
-----------------------------------------------------------------------------
(***************************************************************************)
(* Properties.                                                             *)
(***************************************************************************)

\* Whatever a guest picks in a form, the check accepts exactly the selections
\* that the menu's rules allow by now: subgroups by their own limits, a
\* container by what is chosen in all of its subgroups, a linked group by the
\* item's overrides (menu/services.py, comments of menu/models.py).
CheckIsRule ==
  page.kind = "form" =>
    \A sel \in Picks(page.offer) :
      check_modifier_selection(menu, page.item, sel)
        <=> SelectionValid(menu, page.item, sel)

Complete == req # Idle /\ req.phase = "commit"

\* If nobody edits the menu after the guest has seen the cart, the order costs
\* what the cart page said, although cart.py and services.py price it apart.
ChargedAsShown == Complete /\ req.shownAt = edits => req.total = req.shown

\* If nobody edits the menu while the order is made, each line of it is of an
\* item on sale, has all that was chosen for it, and is a valid selection.
OrderIsValid ==
  Complete /\ req.begunAt = edits =>
    \A k \in DOMAIN cart :
      /\ can_be_ordered(menu, cart[k].item)
      /\ req.rows[k].options = cart[k].wanted.options
      /\ SelectionValid(menu, cart[k].item, cart[k].wanted)

\* Even if they do, an order has every option that was chosen, but for those
\* that were switched off while the order was being made.
OnlyWithdrawnMissing ==
  Complete => \A k \in DOMAIN cart :
    cart[k].wanted.options \ req.rows[k].options \subseteq req.withdrawn

\* A cart is refused only if the menu was edited since a line was added: Cart.add
\* lets nothing in that create_order refuses.
RefusedForAReason ==
  page.kind = "cart" /\ page.error => \E k \in DOMAIN cart : cart[k].at < edits

\* A checkout fails with a 500 only if an item of the cart, or one chosen as a
\* modifier, was deleted: neither switching things off, nor new rules or prices
\* in between its statements, nor the foreign keys at COMMIT make it fail.
FailsOnlyOnDeletion ==
  page.kind = "failed" => \E i \in CartItems : ~Exists(menu, i)
=============================================================================
