---------------------------- MODULE MCReports ----------------------------
(* Constants for the runs of Reports. *)
EXTENDS Reports, TLC

CONSTANTS h1, h2, giro, personal, other, pay, move, back, shop, late, last, rent, food

\* h1 has a joint account and a personal one, h2 one account.
Owners   == [a \in Accounts |-> IF a = other THEN h2 ELSE h1]
Openings == [a \in Accounts |-> 10]

\* h1 is paid on the personal account, moves money to the joint one (both sides are
\* booked) and shops; it shopped in the month before.  a late booking comes in for it.
OfAccount == [b \in Bookings |-> CASE b \in {pay, move} -> personal
                                   [] b \in {back, shop, last, late} -> giro
                                   [] OTHER -> other]
Amounts == [b \in Bookings |-> CASE b = pay -> 40 [] b = move -> -20 [] b = back -> 20
                                 [] b = shop -> -12 [] b = last -> -6 [] b = late -> 3
                               [] b = rent -> -7]
Mentioned == [b \in Bookings |-> CASE b = move -> {giro} [] b = back -> {personal}
                                   [] OTHER -> {}]
AtFirst == [b \in Bookings |-> CASE b \in {move, back} -> Transfer
                                 [] b \in {shop, last} -> food
                                 [] OTHER -> Uncategorized]

Keys == [c \in Categories \cup {Transfer, DepotTransfer, Uncategorized} |->
           IF c \in Categories THEN "category_food_total" ELSE "category_other_total"]

Formulas ==
  "Savings Rate" :> [op |-> "pct", x |-> "net_cashflow", y |-> "total_income"]
  @@ "Groceries Share" :> [op |-> "pct", x |-> "category_food_total", y |-> "total_expense"]
  @@ "MoM Expense Change" :>
       [op |-> "change", x |-> "total_expense", y |-> "prev_total_expense"]
  @@ "Daily Burn Rate" :>
       [op |-> "ratio", x |-> "total_expense", y |-> "days_in_period"]
  @@ "Average Transaction Size" :> [op |-> "value", x |-> "avg_expense", y |-> "avg_expense"]

Usually == [return |-> 3, inflation |-> 1, years |-> 1, actual |-> TRUE, monthly |-> None]
Gloomy  == [return |-> 1, inflation |-> 2, years |-> 1, actual |-> FALSE, monthly |-> 5]
Broken  == [return |-> 3, inflation |-> -Hundred, years |-> 1, actual |-> TRUE, monthly |-> None]
Asks == {<<"projection", h1>>, <<"update", h1>>, <<"start", None>>}

Symmetry == Permutations(Workers)

Settings == {Usually, Gloomy, Broken}
=============================================================================
