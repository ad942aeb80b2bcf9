-------------------------------- MODULE Pricing -------------------------------
(***************************************************************************)
(* Prices of seats.  Three places compute them: the showtime's creation    *)
(* turns a cell of the hall's layout into a seat row, the seat map shows a *)
(* price for the row, and the checkout charges one.  Factors are in        *)
(* hundredths and a missing factor is 0, which the code takes for missing  *)
(* too.                                                                    *)
(***************************************************************************)
EXTENDS Integers

Types == {"STANDARD", "VIP", "COUPLE", "ACCESSIBLE"}
Cells == [type : Types \cup {"OTHER"}, factor : Nat]
Rows == [type : Types, factor : Nat]

(* SEAT_TYPE_PRICE_MODIFIERS[type] || 1.0 *)
TypeFactor(type) ==
  IF type = "VIP" THEN 120 ELSE IF type = "COUPLE" THEN 200 ELSE 100

OwnFactor(x) == x.factor \notin {0, 100}
Factor(x) == IF OwnFactor(x) THEN x.factor ELSE TypeFactor(x.type)

(* ShowtimeService.create *)
RowOfCell(cell) ==
  [type |-> IF cell.type \in Types THEN cell.type ELSE "STANDARD", factor |-> Factor(cell)]

(* The seeds keep the factor of the cell, and 1.0 for a missing one.       *)
SeededRow(cell) ==
  [type |-> cell.type, factor |-> IF cell.factor = 0 THEN 100 ELSE cell.factor]

(* Math.round of base * factor / 100 *)
Price(base, factor) == (2 * base * factor + 100) \div 200

(* getShowtimeSeats *)
MapPrice(base, row) == Price(base, Factor(row))

(* The seat page takes a missing base for 250, and a price of nothing for  *)
(* none, which it then computes itself with the factor of the answer.      *)
ClickPrice(base, row) ==
  IF MapPrice(base, row) # 0 THEN MapPrice(base, row)
  ELSE Price(IF base = 0 THEN 250 ELSE base, Factor(row))

(* BookingService.checkout *)
ChargedPrice(base, row) == Price(base, IF row.factor = 0 THEN 100 ELSE row.factor)

(* The customer is charged what the seat page showed him, for every seat   *)
(* that a showtime's creation made from the layout of its hall, unless the *)
(* showtime costs nothing: the page then shows a base price of its own.    *)
ShownIsCharged(base, cell) ==
  base # 0 => ClickPrice(base, RowOfCell(cell)) = ChargedPrice(base, RowOfCell(cell))

(* For seats that a seed made this needs a factor in the layout, or a type *)
(* without a surcharge: a VIP cell without a factor, or with 1.0, is shown *)
(* with its surcharge and charged without.                                 *)
SeededIsCharged(base, cell) ==
  base # 0 =>
    (ClickPrice(base, SeededRow(cell)) = ChargedPrice(base, SeededRow(cell))
       \/ (~OwnFactor(cell) /\ TypeFactor(cell.type) # 100))

(* The seat page's own layout for a showtime that it cannot load: its      *)
(* prices are never charged.                                               *)
DemoFactor(type) ==
  IF type = "VIP" THEN 125 ELSE IF type = "COUPLE" THEN 180 ELSE 100
DemoPrice(type) == Price(250, DemoFactor(type))
=============================================================================
