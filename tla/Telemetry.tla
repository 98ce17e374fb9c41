------------------------------ MODULE Telemetry ------------------------------
(***************************************************************************)
(* How a correlation id and a tenant id travel (pkg/telemetry): as values  *)
(* of a context inside a process, as gRPC metadata between processes.      *)
(***************************************************************************)
EXTENDS Sequences

\* The empty string, which the package treats as no id.
Unset == ""

Background == [correlationID |-> Unset, tenantID |-> Unset]

WithCorrelationID(ctx, id) == [correlationID |-> id, tenantID |-> ctx.tenantID]

WithTenantID(ctx, id) == [correlationID |-> ctx.correlationID, tenantID |-> id]

\* A metadata key holds a list of values.
Values(id) == IF id = Unset THEN <<>> ELSE <<id>>

\* The metadata UnaryClientInterceptor sends along with a call under ctx.
OutgoingMetadata(ctx) == [correlationID |-> Values(ctx.correlationID),
                          tenantID      |-> Values(ctx.tenantID)]

firstValue(vals) == IF vals = <<>> THEN Unset ELSE vals[1]

\* The context UnaryServerInterceptor hands to the handler.  The context of an
\* incoming call carries no id before it, so setting an id only when it is not
\* empty is setting it.
IncomingContext(md) ==
  WithTenantID(WithCorrelationID(Background, firstValue(md.correlationID)),
               firstValue(md.tenantID))
=============================================================================
