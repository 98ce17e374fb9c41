----------------------------- MODULE MCPlatform -----------------------------
(***************************************************************************)
(* Instances of the platform for TLC.                                      *)
(***************************************************************************)
EXTENDS PlatformProperties

Entry(id, status, products) == [tenantID |-> id, status |-> status, dagVersions |-> products]

\* config/tenants.yaml, and what an operator may make of it.
Shipped    == <<Entry("acme_insurance", "active", {"auto"}),
                Entry("globex_insurance", "suspended", {"auto"})>>
Onboarding == <<Entry("acme_insurance", "onboarding", {"auto"})>>
\* The tenant listed twice: the second entry counts.
Twice      == <<Entry("acme_insurance", "suspended", {}),
                Entry("acme_insurance", "active", {"home"})>>
Removed    == <<Entry("globex_insurance", "active", {"auto"})>>

AllFiles == {Shipped, Onboarding, Twice, Removed}
TwoFiles == {Shipped, Onboarding}
OneFile  == {Shipped}

Posted(id) == [via |-> "rest", form |-> "post", claimID |-> id, product |-> "auto"]

Direct(payload, correlation, tenant) ==
  [via |-> "grpc", claimID |-> "clm-3", product |-> "auto", correlationID |-> payload,
   metadata |-> [correlationID |-> correlation, tenantID |-> tenant]]

\* Well and badly formed submissions, and direct calls with ids in the metadata, in
\* the claim, in both, and without a tenant.
AllSubmissions ==
  {Posted("clm-1"),
   [Posted("clm-1") EXCEPT !.form = "otherMethod"],
   [Posted("clm-1") EXCEPT !.form = "malformed"],
   [Posted("clm-1") EXCEPT !.form = "incomplete"],
   Direct("", <<"tc09-test-1">>, <<"acme_insurance">>),
   Direct("console-1", <<"tc09-test-1">>, <<"acme_insurance">>),
   Direct("console-1", <<>>, <<>>)}

\* A claim, the same claim submitted again, another claim, and one from a console.
Resubmitted == {Posted("clm-1"), Posted("clm-2"),
                Direct("console-1", <<>>, <<"acme_insurance">>)}

BothIDs == {Direct("console-1", <<"tc09-test-1">>, <<"acme_insurance">>)}
=============================================================================
