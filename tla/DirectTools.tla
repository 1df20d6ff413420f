---------------------------- MODULE DirectTools ----------------------------
(***************************************************************************)
(* The tools that make one request and hand on what Schwab answers: their  *)
(* arguments, the client and its list of methods, the response.  What four *)
(* of them store in the history cache is in HistoryWriter.                 *)
(***************************************************************************)
EXTENDS InputWindows

VARIABLES
  called,      \* the tool called
  toolStep,    \* where the call is
  bounds,      \* the two times of a tool that takes a window
  checkedAt,   \* history: the moment they were checked
  sent,        \* history: the window sent to Schwab
  body,        \* what came back
  toolAnswer   \* how the tool ended

directVars == <<called, toolStep, bounds, checkedAt, sent, body, toolAnswer>>

ListTools == {"get_accounts", "get_account_numbers", "get_orders_history",
              "get_transactions"}
ObjectTools == {"get_account_positions", "get_account_summary"}
VerbatimTools == {"get_user_preferences", "get_order_detail",
                  "get_transaction_detail"}
OneRequestTools == ListTools \cup ObjectTools \cup VerbatimTools
NoArguments == {"get_account_numbers", "get_user_preferences"}
Windowed == {"get_orders_history", "get_transactions"}

\* The method of schwab-py each tool calls.
Method(tool) ==
  CASE tool \in ObjectTools -> "get_account"
    [] tool = "get_orders_history" -> "get_orders_for_account"
    [] tool = "get_order_detail" -> "get_order"
    [] tool = "get_transaction_detail" -> "get_transaction"
    [] OTHER -> tool

\* A fault: a new tool whose method has not been added to the list.
ReadOnlyMethodsOld ==
  {"get_account", "get_account_numbers", "get_accounts", "get_account_orders",
   "get_order", "get_orders_for_account", "get_transactions",
   "get_user_preferences"}

ReadOnlyMethods ==
  {"get_account", "get_account_numbers", "get_accounts", "get_account_orders",
   "get_order", "get_orders_for_account", "get_transaction", "get_transactions",
   "get_user_preferences"}

\* What a response comes to: an error status; JSON that is a list with something
\* in it, an object, or something Python takes for false; or else text, a number or
\* true, of a body that is not JSON too.  An object may be no account: what stands for
\* the account in it is no object, or the positions are a number or true.  Or it has an
\* odd part: positions that are text or an object, or one of them that is no object
\* or has a number too large for a float, or balances that are no object.  Or there
\* is no response: no client, or no connection.
Bodies == {"failure", "rows", "object", "no_account", "odd_part", "nothing", "text"}
Faults == {"unavailable", "unreachable"}

DirectInit ==
  /\ toolStep = "arguments"
  /\ bounds = [first |-> 0, second |-> 0]
  /\ checkedAt = -1
  /\ sent = NoWindow
  /\ body = "none"
  /\ toolAnswer = "none"

DirectTypeOK ==
  /\ toolStep \in {"arguments", "client", "request", "response", "done"}
  /\ bounds \in [first : Int, second : Int]
  /\ checkedAt \in Int
  /\ sent \in Window
  /\ body \in Bodies \cup Faults \cup {"none"}
  /\ toolAnswer \in {"none", "rejected", "raised", "error", "empty", "data"}

ToolEnd(answer) ==
  /\ toolStep' = "done"
  /\ toolAnswer' = answer

Accepted(b) ==
  /\ called = "get_orders_history" => OrdersAccepted(b.first, b.second)
  /\ called = "get_transactions" => TransactionsAccepted(b.first, b.second)

\* The arguments a caller gives: times up to the end of the clock, or dates.
GivenBounds ==
  CASE called = "get_orders_history" -> [first : 0..MaxMoment, second : 0..MaxMoment]
    [] called = "get_transactions" ->
         [first : 0..DayOf(MaxMoment), second : 0..DayOf(MaxMoment)]
    [] OTHER -> {bounds}

\* model_validate accepts them ...
Validate ==
  /\ toolStep = "arguments"
  /\ \E b \in GivenBounds : Accepted(b) /\ bounds' = b
  /\ checkedAt' = moment
  /\ toolStep' = "client"
  /\ UNCHANGED <<called, sent, body, toolAnswer>>

\* ... or does not, for the window or any other field: a hash, an id, a name that
\* is not in the model.  Two tools have no arguments.
Reject ==
  /\ toolStep = "arguments"
  /\ called \notin NoArguments
  /\ \E b \in GivenBounds : bounds' = b
  /\ ToolEnd("rejected")
  /\ UNCHANGED <<called, checkedAt, sent, body>>

\* get_client, which may wait for another call that builds it (ClientSession).
GetClient ==
  /\ toolStep = "client"
  /\ toolStep' = "request"
  /\ UNCHANGED <<called, bounds, checkedAt, sent, body, toolAnswer>>

NoClient ==
  /\ toolStep = "client"
  /\ body' = "unavailable"
  /\ ToolEnd("raised")
  /\ UNCHANGED <<called, bounds, checkedAt, sent>>

RequestWindow ==
  CASE called = "get_orders_history" ->
         [from |-> bounds.first, to |-> bounds.second, at |-> moment]
    [] called = "get_transactions" ->
         [from |-> StartOfDay(bounds.first), to |-> EndOfDay(bounds.second),
          at |-> moment]
    [] OTHER -> NoWindow

\* The request goes out through the wrapper, which raises NotImplementedError for
\* a method that is not on its list.
Request ==
  /\ toolStep = "request"
  /\ IF Method(called) \in ReadOnlyMethods
     THEN /\ sent' = RequestWindow
          /\ toolStep' = "response"
          /\ UNCHANGED toolAnswer
     ELSE ToolEnd("raised") /\ UNCHANGED sent
  /\ UNCHANGED <<called, bounds, checkedAt, body>>

Unreachable ==
  /\ toolStep = "response"
  /\ body' = "unreachable"
  /\ ToolEnd("raised")
  /\ UNCHANGED <<called, bounds, checkedAt, sent>>

\* The bodies that an object tool cannot read.  Only the summary looks into the
\* positions and the balances; the positions tool hands them on, and what the history
\* cache makes of them is in HistoryWriter and raises nothing out of the tool.
Unreadable ==
  {"rows", "text", "no_account"}
  \cup (IF called = "get_account_summary" THEN {"odd_part"} ELSE {})

\* A fault: (data or {}) is written data.
ShapedWithoutDefault(b) ==
  IF b = "failure" THEN "error"
  ELSE CASE called \in ListTools -> IF b = "rows" THEN "data" ELSE "empty"
         [] called \in ObjectTools ->
              IF b \in Unreadable \cup {"nothing"} THEN "raised" ELSE "data"
         [] called \in VerbatimTools -> "data"

\* A list tool takes anything that is not a list for no rows; an object tool raises on
\* what it cannot read, and takes what is false for an empty account; the others hand
\* the body on.
Shaped(b) ==
  IF b = "failure" THEN "error"
  ELSE CASE called \in ListTools -> IF b = "rows" THEN "data" ELSE "empty"
         [] called \in ObjectTools ->
              IF b \in Unreadable THEN "raised" ELSE IF b = "nothing" THEN "empty" ELSE "data"
         [] called \in VerbatimTools -> "data"

Normalise ==
  /\ toolStep = "response"
  /\ \E b \in Bodies : body' = b /\ ToolEnd(Shaped(b))
  /\ UNCHANGED <<called, bounds, checkedAt, sent>>

DirectNext ==
  \/ Validate
  \/ Reject
  \/ GetClient
  \/ NoClient
  \/ Request
  \/ Unreachable
  \/ Normalise

-----------------------------------------------------------------------------

\* A tool raises out of the server only when there is no client or no connection,
\* or when an object tool gets a 2xx body that is no account or, the summary alone, one
\* with an odd part: never for a method the allow list lacks, never for an error status
\* or an empty body, and a list or detail tool not for any body at all.
RaisesOnlyOnFaults ==
  toolAnswer = "raised" =>
    \/ body \in Faults
    \/ called \in ObjectTools /\ body \in {"rows", "text", "no_account"}
    \/ called = "get_account_summary" /\ body = "odd_part"

\* The check of the window is old when the request goes out, and is made of dates
\* for transactions.  So a window reaches further back than the cap, but by no
\* more than the wait in between and, for transactions, less than a day.  A
\* transactions window is every moment of the days from the first to the second,
\* both inclusive, and there is at least one.
WindowsAsAccepted ==
  sent # NoWindow =>
    LET beyond == (sent.at - Cap * Day) - sent.from
        waited == sent.at - checkedAt
    IN  CASE called = "get_orders_history" -> beyond <= waited
          [] called = "get_transactions" ->
               /\ beyond < waited + Day
               /\ sent.from <= sent.to
               /\ sent.from..sent.to
                    = {t \in 0..StartOfDay(DayOf(MaxMoment) + 1) :
                         DayOf(t) \in bounds.first..bounds.second}
=============================================================================
