-------------------------------- MODULE MCTools --------------------------------
(* Two companies, two customers and an employee of one; floats with three bits *)
(* of mantissa and int64 of five: integers are exact up to 8, int64 ends at 15. *)
EXTENDS Tools, TLC

Env(company, user, role) == [company |-> company, user |-> user, role |-> role]
FewEnvs == {Env("A", "ana", "CUSTOMER"), Env("A", "ben", "CUSTOMER"),
            Env("A", "eva", "EMPLOYEE"), Env("B", "zoe", "CUSTOMER")}

Order(company, customer) ==
    [company |-> company, customer |-> customer, active |-> TRUE, rev |-> 0]
Row(kind, id, company, name, category, rank) ==
    [kind |-> kind, id |-> id, company |-> company, active |-> TRUE, name |-> name,
     words |-> {"coffee", name}, category |-> category, rank |-> rank, rev |-> 0]

SmallDb ==
    [orders  |-> 1 :> Order("A", "ana") @@ 2 :> NoRow @@ 8 :> Order("A", "ben"),
     catalog |-> "beans"   :> Row("product", 1, "A", "beans", "food", 1)
              @@ "coffee"  :> Row("product", 2, "A", "coffee", "drinks", 3)
              @@ "barista" :> Row("service", 1, "A", "barista", "drinks", 2)
              @@ "tea"     :> Row("product", 8, "B", "tea", "drinks", 4),
     rules   |-> <<"A", "hours">> :> [active |-> TRUE, rev |-> 0]
              @@ <<"B", "address">> :> [active |-> TRUE, rev |-> 0]]

Strings == {"", " ", "Coffee", " coffee ", "coffee", "tea", "drinks", "hours", "address",
            "all", "service"}
Trims   == [s \in Strings |-> CASE s = " " -> "" [] s = " coffee " -> "coffee" [] OTHER -> s]
Lowers  == [s \in Strings |-> IF s = "Coffee" THEN "coffee" ELSE s]

Num(k) == [num |-> k]
Str(s) == [str |-> s]
Object(params) == [object |-> params]

\* Halves: -1, 0, 1/2, 1, 2, 4 1/2 (read as 4), 8, 9 (read as 8), 15 (read as 16),
\* 16 and 40 (beyond int64).
Numbers == {-2, 0, 1, 2, 4, 9, 16, 18, 30, 32, 80}
NotObjects == {[raw |-> "empty"], [raw |-> "null"], Garbage, Object([n \in {} |-> n])}

Searches ==
    {Object("query" :> Str(q)) : q \in {"", " ", "Coffee", " coffee ", "tea"}}
    \cup {Object("query" :> Str("coffee") @@ "limit" :> Num(k)) : k \in {0, 2, 3, 6, 7, 8}}
    \cup {Object("query" :> Str("coffee") @@ "kind" :> Str(k)) : k \in {"all", "service", "tea"}}
    \cup {Object("query" :> Str("coffee") @@ "category" :> Str(c)) : c \in {"", "drinks"}}
    \cup {Object("query" :> [null |-> TRUE]), Object("limit" :> Num(2)),
           Object("query" :> Num(2)), Object("query" :> Str("tea") @@ "page" :> Num(2))}

\* The employee's tool of registry_test.go, with a parameter of each other type.
StaffTools ==
    [update_stock |->
        [schema |-> [properties |-> [product_id |-> [type |-> "integer"],
                                     price      |-> [type |-> "number", minimum |-> 0],
                                     active     |-> [type |-> "boolean"],
                                     tags       |-> [type |-> "array", items |-> "string"],
                                     note       |-> [type |-> ""]],
                     required   |-> {"product_id"}],
         roles  |-> {"EMPLOYEE"}]]

Updates ==
    {Object("product_id" :> Num(2) @@ n :> v) :
        n \in {"price", "active", "tags", "note"},
        v \in {Num(1), Num(-2), [bool |-> TRUE], [arr |-> <<Str("tea")>>], [arr |-> <<Num(2)>>],
               Str("tea"), [null |-> TRUE]}}

FewCalls ==
    ({"search_catalog"} \X (Searches \cup NotObjects))
    \cup ({"get_product"} \X {Object("product_id" :> Num(k)) : k \in Numbers})
    \cup ({"check_stock"} \X {Object("product_id" :> v) : v \in {Num(2), Str("tea")}})
    \cup ({"get_order_status"} \X
             ({Object("order_id" :> Num(k)) : k \in Numbers} \cup NotObjects))
    \cup ({"get_business_rule"} \X {Object("key" :> v) : v \in {Str("hours"), Str("address"),
                                                               Str(" "), Num(2)}})
    \cup ({"update_stock"} \X Updates)
    \cup {<<"drop_tables", [raw |-> "empty"]>>}
==============================================================================
