--------------------------- MODULE AdmissionPolicy ---------------------------
(***************************************************************************)
(* The rate limiter's decision on one LLM job, and the counters of the     *)
(* minute it is taken from: a row of customer_token_usage per account,     *)
(* where the accounts are the customers and the platform as a whole.       *)
(***************************************************************************)
EXTENDS Naturals

CONSTANTS Customers,
          GlobalAccount,   \* GLOBAL_RATE_LIMIT_ID
          Jobs,            \* LLM_ANALYSIS jobs
          CustomerOf,      \* the customer of a job
          Estimate,        \* its token_estimate
          Budget,          \* customer_token_budget_per_minute in its payload, or the default
          HighJobs,        \* the jobs with priority HIGH
          TokenLimit, RequestLimit     \* LLM_TOKENS_PER_MINUTE, LLM_REQUESTS_PER_MINUTE

Accounts == Customers \cup {GlobalAccount}

\* The four counters of a customer_token_usage row.
Row == [reservedTokens : Nat, requestsReserved : Nat, usedTokens : Nat, requestsUsed : Nat]

Usage == [Accounts -> Row]

\* The rows _get_or_create_usage inserts.
NewUsage ==
  [a \in Accounts |-> [reservedTokens |-> 0, requestsReserved |-> 0,
                       usedTokens |-> 0, requestsUsed |-> 0]]

\* Mutants: the limit checked before the estimate is added; overflow for everyone.
AdmitsOnceMore(usage, j) ==
  /\ usage[GlobalAccount].reservedTokens < TokenLimit
  /\ usage[GlobalAccount].requestsReserved < RequestLimit

AdmitsOverflow(usage, j) ==
  LET platform == usage[GlobalAccount]
      customer == usage[CustomerOf[j]]
  IN  /\ platform.reservedTokens + Estimate[j] <= TokenLimit
      /\ platform.requestsReserved + 1 <= RequestLimit
      /\ \/ customer.reservedTokens + Estimate[j] <= Budget[j]
         \/ 10 * platform.reservedTokens < 7 * TokenLimit

\* Mutant: overflow for HIGH however much is reserved.
AdmitsUncapped(usage, j) ==
  LET platform == usage[GlobalAccount]
      customer == usage[CustomerOf[j]]
  IN  /\ platform.reservedTokens + Estimate[j] <= TokenLimit
      /\ platform.requestsReserved + 1 <= RequestLimit
      /\ j \in HighJobs \/ customer.reservedTokens + Estimate[j] <= Budget[j]

\* BudgetAdmissionPolicy.decide: the platform's two limits, then the customer's
\* budget, which HIGH jobs may overrun while less than 70% of the platform's tokens
\* are reserved.
Admits(usage, j) ==
  LET platform == usage[GlobalAccount]
      customer == usage[CustomerOf[j]]
  IN  /\ platform.reservedTokens + Estimate[j] <= TokenLimit
      /\ platform.requestsReserved + 1 <= RequestLimit
      /\ \/ customer.reservedTokens + Estimate[j] <= Budget[j]
         \/ j \in HighJobs /\ 10 * platform.reservedTokens < 7 * TokenLimit

\* Mutant: the customer's row is forgotten.
ReserveGlobalOnly(usage, j) ==
  [usage EXCEPT ![GlobalAccount].reservedTokens = @ + Estimate[j],
                ![GlobalAccount].requestsReserved = @ + 1]

\* The counters after a reservation, on the platform's row and the customer's.
Reserved(usage, j) ==
  [a \in Accounts |->
     IF a \in {GlobalAccount, CustomerOf[j]}
       THEN [usage[a] EXCEPT !.reservedTokens = @ + Estimate[j], !.requestsReserved = @ + 1]
       ELSE usage[a]]
=============================================================================
