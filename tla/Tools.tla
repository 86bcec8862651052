-------------------------------- MODULE Tools --------------------------------
(***************************************************************************)
(* A tool call of a turn: Registry.Execute (internal/tools/registry.go),   *)
(* the handlers of customer.go and the statements of internal/store they   *)
(* send, beside others who change the tables (nothing in the program does, *)
(* apart from the pipeline's own tables).                                  *)
(*                                                                         *)
(* `db' is the history of the tables, one entry for each write; statements *)
(* read its last entry.  A database is a record of functions               *)
(*   orders  : id -> [company, customer, active, rev], or NoRow            *)
(*   catalog : row name -> [kind, id, company, active, name, words,        *)
(*                          category, rank, rev]                           *)
(*   rules   : <<company, key>> -> [active, rev]                           *)
(* where `rev' counts the revisions of the row; the items of an order      *)
(* change with its total and carry its revision.  `words' are the terms a  *)
(* row is found under, `rank' is its place in ORDER BY name, kind, id.     *)
(***************************************************************************)
EXTENDS ToolInput, FiniteSets

CONSTANTS Envs,          \* who asks: [company, user, role]
          Calls,         \* <<tool, input>>; an input is [raw |-> "empty"],
                         \*   [raw |-> "null"], Garbage or [object |-> params]
          OtherTools,    \* tools registered besides the read-only ones
          InitialDb,
          MaxWrites,     \* bound: changes of the tables
          DefaultCatalogLimit,
          TrimSpace, ToLower,   \* functions of the strings at hand
          Faults

NoRow   == [none |-> TRUE]
Garbage == [raw |-> "garbage"]

Min2(a, b) == IF a < b THEN a ELSE b

\* The registry after RegisterReadOnlyTools and any later Register.
Registry == [name \in DOMAIN ReadOnlyTools \cup DOMAIN OtherTools |->
                IF name \in DOMAIN ReadOnlyTools THEN ReadOnlyTools[name]
                                                 ELSE OtherTools[name]]

ASSUME ToolsAssumption ==
    /\ DOMAIN OtherTools \cap DOMAIN ReadOnlyTools = {}     \* or Register panics
    /\ "none" \notin DOMAIN OtherTools                      \* the tool of NoCall
    /\ DefaultCatalogLimit \in 1 .. MaxCatalogLimit
    /\ MaxWrites \in Nat
    /\ \A env \in Envs : env.role \in BothRoles

VARIABLES db,          \* the history of the tables
          saturates,   \* the machine's conversion of floats beyond int64
          pc,          \* "idle"; "read" or "items", the statement sent next;
                       \*   "done": the result is there
          call,        \* the call under way
          header,      \* getOrder's row, between its statements
          answer       \* the result handed to the loop

toolVars == <<db, saturates, pc, call, header, answer>>

NoCall   == [tool |-> "none"]
NoAnswer == [none |-> TRUE]

Refused(why) == [error |-> why]
Found(data)  == [found |-> data]

ToolsInit ==
    /\ db = <<InitialDb>>
    /\ saturates \in BOOLEAN
    /\ pc = "idle" /\ call = NoCall /\ header = NoRow
    /\ answer = NoAnswer

-----------------------------------------------------------------------------
\* The role gate, for the payload ...
DefsFor(role) == {name \in DOMAIN Registry : role \in Registry[name].roles}

\* An empty input and null leave no parameters.
Parsed(input) == IF "object" \in DOMAIN input THEN input.object ELSE [n \in {} |-> n]

\* Type assertions on parameters that are not there panic.
AssertsHold(tool, params) ==
    /\ tool = "search_catalog" => "query" \in DOMAIN params /\ Is("str", params["query"])
    /\ tool = "get_business_rule" => "key" \in DOMAIN params /\ Is("str", params["key"])
    /\ tool \in {"get_product", "check_stock"} =>
          "product_id" \in DOMAIN params /\ Is("num", params["product_id"])
    /\ tool = "get_order_status" => "order_id" \in DOMAIN params /\ Is("num", params["order_id"])

Blank(tool, params) ==
    \/ tool = "search_catalog" /\ TrimSpace[params["query"].str] = ""
    \/ tool = "get_business_rule" /\ TrimSpace[params["key"].str] = ""

\* What Execute and then the handler find wrong before any statement.
Verdict(env, tool, input) ==
    LET params == Parsed(input)
    IN  IF tool \notin DOMAIN Registry THEN "unknown tool"
        ELSE IF tool \notin DefsFor(env.role) THEN "not available"
        ELSE IF input = Garbage THEN "not a JSON object"
        ELSE IF ~ValidateParams(Registry[tool].schema, params, saturates) THEN "invalid"
        ELSE IF ~AssertsHold(tool, params) THEN "internal error"
        ELSE IF Blank(tool, params) THEN "empty"
        ELSE "none"

\* The pipeline's env always has its store and a user (resolveIdentity), so the
\* handlers' checks of the two have nothing to find.
Execute(env, tool, input) ==
    /\ pc = "idle"
    /\ call' = [env |-> env, tool |-> tool, input |-> input, at |-> Len(db)]
    /\ LET verdict == Verdict(env, tool, input)
       IN  IF verdict = "none" /\ tool \in DOMAIN ReadOnlyTools
           THEN pc' = "read" /\ UNCHANGED answer
           ELSE /\ pc' = "done"
                /\ answer' = IF verdict = "none" THEN Found("done") ELSE Refused(verdict)
    /\ UNCHANGED <<db, saturates, header>>

-----------------------------------------------------------------------------
Now    == db[Len(db)]
Params == Parsed(call.input)

IntegerParam(name) == Int64(Float(Params[name].num), saturates)
TextParam(name)    == TrimSpace[Params[name].str]

\* Mutant: archived products are found, too.
AnyProduct(d, id) ==
    {r \in DOMAIN d.catalog : /\ d.catalog[r].kind = "product"
                              /\ d.catalog[r].company = call.env.company
                              /\ d.catalog[r].id = id}

ProductRows(d, id) ==
    {r \in DOMAIN d.catalog : /\ d.catalog[r].kind = "product"
                              /\ d.catalog[r].company = call.env.company
                              /\ d.catalog[r].id = id
                              /\ d.catalog[r].active}

\* GetProduct and GetProductStock.
GetProduct(d) ==
    LET rows == ProductRows(d, IntegerParam("product_id"))
    IN  IF rows = {} THEN Refused("not found")
                     ELSE Found(d.catalog[CHOOSE r \in rows : TRUE])

GetBusinessRule(d) ==
    LET key == <<call.env.company, TextParam("key")>>
    IN  IF key \in DOMAIN d.rules /\ d.rules[key].active
        THEN Found(d.rules[key])
        ELSE Refused("not found")

\* Mutant: a limit that is not given is not replaced.
AskedOnly ==
    IF "limit" \in DOMAIN Params THEN Min2(IntegerParam("limit"), MaxCatalogLimit) ELSE 0

SearchLimit ==
    LET limit == IF "limit" \in DOMAIN Params THEN IntegerParam("limit") ELSE 0
    IN  IF limit <= 0 THEN DefaultCatalogLimit ELSE Min2(limit, MaxCatalogLimit)

\* The rows the query, the kind and the category select.
Selected(d) ==
    LET query    == ToLower[TextParam("query")]
        kind     == IF "kind" \in DOMAIN Params THEN Params["kind"].str ELSE "all"
        category == IF "category" \in DOMAIN Params THEN ToLower[TextParam("category")] ELSE ""
    IN  {r \in DOMAIN d.catalog :
            LET row == d.catalog[r]
            IN  /\ row.company = call.env.company
                /\ row.active
                /\ kind \in {"all", row.kind}
                /\ category \in {"", row.category}
                /\ query \in row.words}

\* ORDER BY (name = query) DESC, name, kind, id LIMIT n.
SearchCatalog(d) ==
    LET rows      == Selected(d)
        Exactly(r) == d.catalog[r].name = ToLower[TextParam("query")]
        Before(s, r) == \/ Exactly(s) /\ ~Exactly(r)
                        \/ (Exactly(s) = Exactly(r)) /\ d.catalog[s].rank < d.catalog[r].rank
    IN  Found({d.catalog[r] : r \in {q \in rows :
                  Cardinality({s \in rows : Before(s, q)}) < SearchLimit}})

\* Mutant: the owner of the order is not looked at.
VisibleInCompany(d, id) ==
    /\ d.orders[id] # NoRow
    /\ d.orders[id].company = call.env.company
    /\ d.orders[id].active

\* The WHERE of GetOrder and GetOrderForCustomer.
Visible(d, id) ==
    /\ d.orders[id] # NoRow
    /\ d.orders[id].company = call.env.company
    /\ call.env.role = "EMPLOYEE" \/ d.orders[id].customer = call.env.user
    /\ d.orders[id].active

-----------------------------------------------------------------------------
Ends(result) == pc' = "done" /\ answer' = result /\ header' = NoRow

StatementFails ==
    /\ pc \in {"read", "items"} /\ "db" \in Faults
    /\ Ends(Refused("failed"))
    /\ UNCHANGED <<db, saturates, call>>

\* The tools that send one statement.
ReadOnce ==
    /\ pc = "read" /\ call.tool # "get_order_status"
    /\ Ends(CASE call.tool = "search_catalog"                  -> SearchCatalog(Now)
              [] call.tool \in {"get_product", "check_stock"}  -> GetProduct(Now)
              [] call.tool = "get_business_rule"               -> GetBusinessRule(Now))
    /\ UNCHANGED <<db, saturates, call>>

\* getOrder, first statement: the row, for an employee or for its customer.
ReadOrder ==
    /\ pc = "read" /\ call.tool = "get_order_status"
    /\ LET id == IntegerParam("order_id")
       IN  IF id \in DOMAIN Now.orders /\ Visible(Now, id)
           THEN /\ header' = Now.orders[id] /\ pc' = "items"
                /\ UNCHANGED answer
           ELSE Ends(Refused("not found"))
    /\ UNCHANGED <<db, saturates, call>>

\* The second: the items, whatever became of the order and its owner meanwhile.
ReadItems ==
    /\ pc = "items"
    /\ Ends(Found([order |-> header, items |-> Now.orders[IntegerParam("order_id")].rev]))
    /\ UNCHANGED <<db, saturates, call>>

\* The loop takes the result.
Taken ==
    /\ pc = "done"
    /\ pc' = "idle" /\ call' = NoCall /\ answer' = NoAnswer
    /\ UNCHANGED <<db, saturates, header>>

\* Someone revises a row, archives it, places an order or gives it to another
\* customer of the company (external).
Revised(row)  == {[row EXCEPT !.rev = @ + 1], [row EXCEPT !.active = FALSE]}

Customers(company) == {env.user : env \in {e \in Envs : /\ e.company = company
                                                       /\ e.role = "CUSTOMER"}}

Reassigned(order) == {[order EXCEPT !.customer = c, !.rev = @ + 1] :
                          c \in Customers(order.company)}

Write ==
    /\ Len(db) <= MaxWrites
    /\ \/ \E id \in DOMAIN Now.orders :
             /\ Now.orders[id] # NoRow
             /\ \E row \in Revised(Now.orders[id]) \cup Reassigned(Now.orders[id]) :
                   db' = Append(db, [Now EXCEPT !.orders[id] = row])
       \/ \E id \in DOMAIN Now.orders, env \in Envs :
             /\ Now.orders[id] = NoRow /\ env.role = "CUSTOMER"
             /\ db' = Append(db, [Now EXCEPT !.orders[id] =
                          [company |-> env.company, customer |-> env.user,
                           active |-> TRUE, rev |-> 0]])
       \/ \E r \in DOMAIN Now.catalog : \E row \in Revised(Now.catalog[r]) :
             db' = Append(db, [Now EXCEPT !.catalog[r] = row])
       \/ \E r \in DOMAIN Now.rules : \E row \in Revised(Now.rules[r]) :
             db' = Append(db, [Now EXCEPT !.rules[r] = row])
    /\ UNCHANGED <<saturates, pc, call, header, answer>>

ToolsNext ==
    \/ \E env \in Envs, c \in Calls : Execute(env, c[1], c[2])
    \/ StatementFails \/ ReadOnce \/ ReadOrder \/ ReadItems \/ Taken
    \/ Write

ToolsSpec == ToolsInit /\ [][ToolsNext]_toolVars

-----------------------------------------------------------------------------
Ended(tool) == call.tool = tool /\ pc = "done"
Known       == call.tool \in DOMAIN Registry
GotResult   == "found" \in DOMAIN answer

\* "Enough to guarantee handlers see well-shaped input before any SQL runs"
\* (registry.go:147): no type assertion of a handler panics, and a handler runs
\* only for a role that was offered its tool.
HandlersSeeWellShapedInput ==
    /\ answer # Refused("internal error")
    /\ pc \in {"read", "items"} \/ GotResult => call.tool \in DefsFor(call.env.role)

\* An input is taken if and only if it conforms to the schema the model was
\* given.  Nothing is said of an input in which any number, be it of another
\* parameter, is no float64, except that what goes into a statement of the
\* read-only tools is an id from 1 to the largest int64.
SchemaIsEnforced ==
    Known /\ call.tool \in DefsFor(call.env.role) /\ call.input # Garbage =>
        LET taken == answer # Refused("invalid")
        IN  /\ AllExact(Params) =>
                  (taken <=> Conforms(Registry[call.tool].schema, Params))
            /\ taken /\ call.tool \in DOMAIN ReadOnlyTools =>
                  \A n \in {"product_id", "order_id"} \cap DOMAIN Params :
                     /\ IntegerParam(n) \in 1 .. MaxInt64
                     /\ AllExact(Params) => 2 * IntegerParam(n) = Params[n].num

\* "Customers may only access their own orders; employees may access any order
\* in the same company" (customer.go:77), and the answer for another one's
\* order is the answer for an order that does not exist (orders.go:34), whoever
\* changes the order meanwhile.  It is about the row, which was the user's when
\* it was read; the items are read without that condition.
OrdersStayPrivate ==
    Ended("get_order_status") =>
        \/ answer \in {Refused(why) : why \in {"not found", "failed", "invalid",
                                              "not a JSON object"}}
        \/ /\ GotResult
           /\ answer.found.order.company = call.env.company
           /\ call.env.role = "CUSTOMER" => answer.found.order.customer = call.env.user

\* "Get the current ...": an answer about a row is what the row was at a moment
\* of the call, of an active row of the company with the id that was asked for;
\* "not found" says that there was none.  The items of an order are no older
\* than its row.
AnswersAreCurrent ==
    pc = "done" => \E k \in call.at .. Len(db) :
        LET asked(n, id) == AllExact(Params) => Params[n].num = 2 * id
            Of(r) == /\ db[k].catalog[r].kind = "product"
                     /\ db[k].catalog[r].company = call.env.company
                     /\ db[k].catalog[r].active
                     /\ asked("product_id", db[k].catalog[r].id)
        IN  /\ call.tool \in {"get_product", "check_stock"} =>
                  /\ GotResult => \E r \in DOMAIN db[k].catalog :
                                     Of(r) /\ answer.found = db[k].catalog[r]
                  /\ answer = Refused("not found") /\ AllExact(Params) =>
                        \A r \in DOMAIN db[k].catalog : ~Of(r)
            /\ call.tool = "get_order_status" /\ GotResult =>
                  \E id \in DOMAIN db[k].orders, j \in k .. Len(db) :
                     /\ asked("order_id", id)
                     /\ answer.found.order = db[k].orders[id]
                     /\ answer.found.order.active
                     /\ answer.found.items = db[j].orders[id].rev

\* A search holds no more rows than asked for (by default 10, never more than
\* 20), and if it holds fewer than that, it holds every active row of the
\* company that matches.
SearchIsComplete ==
    Ended("search_catalog") /\ GotResult =>
        LET limit == IF "limit" \in DOMAIN Params THEN Params["limit"].num \div 2
                                                   ELSE DefaultCatalogLimit
            Matching(d) == {d.catalog[r] : r \in Selected(d)}
        IN  /\ Cardinality(answer.found) <= limit
            /\ \E k \in call.at .. Len(db) :
                  /\ answer.found \subseteq Matching(db[k])
                  /\ \/ Cardinality(answer.found) = limit
                     \/ answer.found = Matching(db[k])
==============================================================================
