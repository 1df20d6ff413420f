---------------------------- MODULE CrossAccount ----------------------------
(***************************************************************************)
(* get_cross_account_summary: discover the linked accounts, then fetch     *)
(* them one by one and merge what each of them answers.  Schwab's answers  *)
(* are inputs; the accounts may change, and requests may fail, between any *)
(* two fetches.                                                            *)
(***************************************************************************)
EXTENDS Integers, Sequences, SequencesExt, FiniteSets

CONSTANTS
  Accounts,      \* account hashes
  Symbols,       \* symbols of positions; one without a symbol counts as UNKNOWN
  MarketValues,  \* market values of positions; a missing or junk one counts as 0
  Liquidations,  \* liquidation values of accounts
  MaxHeld        \* bound: positions in one account

ASSUME CrossAssumption ==
  /\ IsFiniteSet(Accounts)
  /\ IsFiniteSet(Symbols)
  /\ MarketValues \subseteq Int
  /\ Liquidations \subseteq Int
  /\ MaxHeld \in Nat

VARIABLES
  crossStep,   \* where the call is
  hashes,      \* the discovered account hashes, in Schwab's order
  fetched,     \* history: what Schwab answered for each account so far
  entries,     \* per_account
  rollup,      \* symbol_rollup; a count of 0 for a symbol that is not in it
  grand,       \* the grand totals
  crossAnswer  \* how the tool ended

crossVars == <<crossStep, hashes, fetched, entries, rollup, grand, crossAnswer>>

HeldPosition == [symbol: Symbols, value: MarketValues]
Portfolio == UNION {[1..n -> HeldPosition] : n \in 0..MaxHeld}

\* An account as Schwab answers it; an error response has nothing in it.
Account == [ok: {TRUE}, positions: Portfolio, liquidation: Liquidations]
ErrorResponse == [ok |-> FALSE, positions |-> <<>>, liquidation |-> 0]

Entry == [account: Accounts, ok: BOOLEAN, position_count: 0..MaxHeld,
          market: Int, liquidation: Int, share: Int]

CrossTypeOK ==
  /\ crossStep \in {"discover", "fetch", "done"}
  /\ hashes \in Seq(Accounts)
  /\ fetched \in Seq(Account \cup {ErrorResponse})
  /\ entries \in Seq(Entry)
  /\ rollup \in [Symbols -> [value: Int, account_count: Nat]]
  /\ grand \in [market: Int, liquidation: Int]
  /\ crossAnswer \in {"none", "error", "raised", "ok"}

CrossInit ==
  /\ crossStep = "discover"
  /\ hashes = <<>>
  /\ fetched = <<>>
  /\ entries = <<>>
  /\ rollup = [s \in Symbols |-> [value |-> 0, account_count |-> 0]]
  /\ grand = [market |-> 0, liquidation |-> 0]
  /\ crossAnswer = "none"

\* The places of a symbol, and the value of what is at some places.
Of(s, positions) == {i \in DOMAIN positions : positions[i].symbol = s}
ValueAt(positions, I) == SumFunctionOnSet([i \in DOMAIN positions |-> positions[i].value], I)
ValueOf(positions) == ValueAt(positions, DOMAIN positions)

\* get_account_numbers; an answer that is not a list, or an entry of it without a
\* hash, counts as no account.
Discover ==
  /\ crossStep = "discover"
  /\ hashes' \in SetToAllKPermutations(Accounts)
  /\ crossStep' = "fetch"
  /\ UNCHANGED <<fetched, entries, rollup, grand, crossAnswer>>

\* An HTTP error is normalised and answered; a failing transport, or a client
\* that cannot be built, raises out of the tool.
DiscoverFails ==
  /\ crossStep = "discover"
  /\ crossAnswer' \in {"error", "raised"}
  /\ crossStep' = "done"
  /\ UNCHANGED <<hashes, fetched, entries, rollup, grand>>

Fetching ==
  /\ crossStep = "fetch"
  /\ Len(entries) < Len(hashes)

\* A fault: the number of positions is not reset between accounts.
RecordRunningCount(response, market) ==
  /\ fetched' = Append(fetched, response)
  /\ entries' = Append(entries,
       [account |-> hashes[Len(entries) + 1], ok |-> response.ok,
        position_count |-> Len(response.positions)
          + (IF entries = <<>> THEN 0 ELSE Last(entries).position_count),
        market |-> market, liquidation |-> response.liquidation, share |-> 0])
  /\ UNCHANGED <<crossStep, hashes, crossAnswer>>

Record(response, market) ==
  /\ fetched' = Append(fetched, response)
  /\ entries' = Append(entries,
       [account |-> hashes[Len(entries) + 1], ok |-> response.ok,
        position_count |-> Len(response.positions), market |-> market,
        liquidation |-> response.liquidation, share |-> 0])
  /\ UNCHANGED <<crossStep, hashes, crossAnswer>>

\* A fault: the bucket of a symbol is set to this account's value, not added to.
FetchAccountOverwrites ==
  /\ Fetching
  /\ \E account \in Account :
       /\ Record(account, ValueOf(account.positions))
       /\ rollup' = [s \in Symbols |->
            IF Of(s, account.positions) = {} THEN rollup[s]
            ELSE [value |-> ValueAt(account.positions, Of(s, account.positions)),
                  account_count |-> rollup[s].account_count + 1]]
       /\ grand' = [market |-> grand.market + ValueOf(account.positions),
                    liquidation |-> grand.liquidation + account.liquidation]

\* One account: its positions go into the roll-up, its balances into the totals.
FetchAccount ==
  /\ Fetching
  /\ \E account \in Account :
       /\ Record(account, ValueOf(account.positions))
       /\ rollup' = [s \in Symbols |->
            [value |-> rollup[s].value + ValueAt(account.positions, Of(s, account.positions)),
             account_count |-> rollup[s].account_count + Cardinality(Of(s, account.positions))]]
       /\ grand' = [market |-> grand.market + ValueOf(account.positions),
                    liquidation |-> grand.liquidation + account.liquidation]

\* A fault: an account that could not be fetched counts as an empty one.
FetchErrorAsEmpty ==
  /\ Fetching
  /\ fetched' = Append(fetched, ErrorResponse)
  /\ entries' = Append(entries,
       [account |-> hashes[Len(entries) + 1], ok |-> TRUE, position_count |-> 0,
        market |-> 0, liquidation |-> 0, share |-> 0])
  /\ UNCHANGED <<crossStep, hashes, rollup, grand, crossAnswer>>

\* A normalised error is recorded with the account and the loop goes on.
FetchError ==
  /\ Fetching
  /\ Record(ErrorResponse, 0)
  /\ UNCHANGED <<rollup, grand>>

\* Anything else (the transport, a body or a part of it of another shape) raises.
FetchRaises ==
  /\ Fetching
  /\ crossAnswer' = "raised"
  /\ crossStep' = "done"
  /\ UNCHANGED <<hashes, fetched, entries, rollup, grand>>

\* A fault: the shares are taken of a grand total of zero, too.
ShareUnguarded ==
  /\ crossStep = "fetch"
  /\ Len(entries) = Len(hashes)
  /\ entries' = [i \in DOMAIN entries |->
       IF entries[i].ok THEN [entries[i] EXCEPT !.share = @ + entries[i].liquidation]
       ELSE entries[i]]
  /\ crossAnswer' = "ok"
  /\ crossStep' = "done"
  /\ UNCHANGED <<hashes, fetched, rollup, grand>>

\* The shares need the grand total, so they come last.  share is the numerator
\* of liquidation_share_pct over the grand total, 0 when that is 0.
Share ==
  /\ crossStep = "fetch"
  /\ Len(entries) = Len(hashes)
  /\ entries' = [i \in DOMAIN entries |->
       IF entries[i].ok /\ grand.liquidation # 0
       THEN [entries[i] EXCEPT !.share = @ + entries[i].liquidation]
       ELSE entries[i]]
  /\ crossAnswer' = "ok"
  /\ crossStep' = "done"
  /\ UNCHANGED <<hashes, fetched, rollup, grand>>

CrossNext ==
  \/ Discover
  \/ DiscoverFails
  \/ FetchAccount
  \/ FetchError
  \/ FetchRaises
  \/ Share

-----------------------------------------------------------------------------

\* The three views of the market value agree after every account, however many
\* of the fetches failed: the roll-up by symbol, the entries by account, and the
\* grand total are all the value of the positions Schwab answered.
MarketValueAgrees ==
  LET answered == SumFunction([i \in DOMAIN fetched |-> ValueOf(fetched[i].positions)])
  IN  /\ SumFunction([s \in Symbols |-> rollup[s].value]) = answered
      /\ SumFunction([i \in DOMAIN entries |-> entries[i].market]) = answered
      /\ grand.market = answered

\* In the answer every discovered account appears once, in order, as failed
\* exactly when its own fetch failed, and a failed one weighs nothing.
EveryAccountReported ==
  crossAnswer = "ok" =>
    /\ Len(entries) = Len(hashes)
    /\ \A i \in 1..Len(entries) :
         /\ entries[i].account = hashes[i]
         /\ entries[i].ok = fetched[i].ok
         /\ ~entries[i].ok => entries[i].market = 0 /\ entries[i].share = 0

\* The comment in the code: shares "sum to ~100%", here exactly.  When the grand total
\* is zero there is nothing to take a share of, even if the values of single accounts
\* are not zero and cancel: then every share is zero.
SharesAddUp ==
  crossAnswer = "ok" =>
    /\ SumFunction([i \in DOMAIN entries |-> entries[i].share]) = grand.liquidation
    /\ \A i \in DOMAIN entries : entries[i].share # 0 => grand.liquidation # 0

\* merged_holdings: account_count is the number of accounts that hold the symbol
\* (test_analytics: 2 for a symbol that two accounts hold).
CountsAccounts ==
  \A s \in Symbols :
    rollup[s].account_count
      = Cardinality({i \in DOMAIN fetched : Of(s, fetched[i].positions) # {}})
=============================================================================
