------------------------------- MODULE Quota -------------------------------
(***************************************************************************)
(* Quota accounting of apps/api/src/modules/auth/api-key.service.ts: the   *)
(* counters on the tenant row and on each of its API keys.  The counters   *)
(* are Int columns nothing floors at zero.                                 *)
(***************************************************************************)
EXTENDS Integers, FiniteSets, Functions

CONSTANTS
  ApiKeys,      \* the keys of the one tenant modelled
  TenantMax,    \* [bytes, assets]: the tenant's allowance
  KeyMax        \* key -> [bytes, assets]: the key's narrower ceiling

Usage == [bytes : Int, assets : Int]

ASSUME QuotaAssumption ==
  /\ IsFiniteSet(ApiKeys)
  /\ TenantMax \in [bytes : Nat, assets : Nat]
  /\ KeyMax \in [ApiKeys -> [bytes : Nat, assets : Nat]]

VARIABLES tenantUsed, keyUsed

quotaVars == <<tenantUsed, keyUsed>>

QuotaTypeOK == tenantUsed \in Usage /\ keyUsed \in [ApiKeys -> Usage]

QuotaInit ==
  /\ tenantUsed = [bytes |-> 0, assets |-> 0]
  /\ keyUsed = [k \in ApiKeys |-> [bytes |-> 0, assets |-> 0]]

---------------------------------------------------------------------------
\* The condition of one updateMany: usedBytes <= max - bytes, usedAssets < max.
HasRoomUpToMax(used, max, bytes) ==    \* wrong: the last slot is given twice
  used.bytes <= max.bytes - bytes /\ used.assets <= max.assets

HasRoom(used, max, bytes) ==
  /\ used.bytes <= max.bytes - bytes
  /\ used.assets < max.assets

Add(used, bytes, n) == [bytes |-> used.bytes + bytes, assets |-> used.assets + n]

CanReserve(k, bytes) ==
  /\ HasRoom(tenantUsed, TenantMax, bytes)
  /\ HasRoom(keyUsed[k], KeyMax[k], bytes)

\* reserveQuota: both conditional updates in one transaction, all or nothing.
\* The rows stay locked between the two, so the transaction is one step.
reservePartly(k, bytes) ==      \* wrong: a refusal on the key keeps the tenant's charge
  /\ HasRoom(tenantUsed, TenantMax, bytes)
  /\ tenantUsed' = Add(tenantUsed, bytes, 1)
  /\ keyUsed' = IF CanReserve(k, bytes) THEN [keyUsed EXCEPT ![k] = Add(@, bytes, 1)]
                                        ELSE keyUsed

reserveQuota(k, bytes) ==
  /\ CanReserve(k, bytes)
  /\ tenantUsed' = Add(tenantUsed, bytes, 1)
  /\ keyUsed' = [keyUsed EXCEPT ![k] = Add(@, bytes, 1)]

\* releaseQuota: both counters, unconditionally.
releaseQuota(k, bytes) ==
  /\ tenantUsed' = Add(tenantUsed, -bytes, -1)
  /\ keyUsed' = [keyUsed EXCEPT ![k] = Add(@, -bytes, -1)]

---------------------------------------------------------------------------
\* However uploads interleave, fail or release, no allowance is exceeded: the
\* check and the increment are one step on both rows.
QuotaCeiling ==
  /\ tenantUsed.bytes <= TenantMax.bytes /\ tenantUsed.assets <= TenantMax.assets
  /\ \A k \in ApiKeys : /\ keyUsed[k].bytes <= KeyMax[k].bytes
                        /\ keyUsed[k].assets <= KeyMax[k].assets

\* The tenant is charged what its keys are charged: a reservation refused on
\* the key, and every release, moves both counters or neither.
TenantIsSumOfKeys ==
  /\ tenantUsed.bytes = SumFunction([k \in ApiKeys |-> keyUsed[k].bytes])
  /\ tenantUsed.assets = SumFunction([k \in ApiKeys |-> keyUsed[k].assets])
=============================================================================
