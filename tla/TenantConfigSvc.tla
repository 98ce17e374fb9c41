--------------------------- MODULE TenantConfigSvc ---------------------------
(***************************************************************************)
(* tenant-config-svc: a table of tenants read from a YAML file when the    *)
(* process starts and never again (internal/store, internal/server,        *)
(* cmd/tenantconfig).                                                      *)
(***************************************************************************)
EXTENDS Naturals, Sequences

CONSTANTS
  TenantFiles,   \* the parsed contents the tenants file may have
  BadFile,       \* it is missing, unreadable or does not parse
  NotFound       \* codes.NotFound

ASSUME BadFileAssumption == BadFile \notin TenantFiles

\* dagVersions has the products with a version; its number is only logged.
Tenant == [tenantID: STRING, status: STRING, dagVersions: SUBSET STRING]

ASSUME TenantFilesAssumption == \A f \in TenantFiles : f \in Seq(Tenant)

VARIABLES
  tenantsFile,   \* what TENANTS_FILE holds
  serving,       \* the process is up
  byID           \* its table: tenant id -> tenant

tenantVars == <<tenantsFile, serving, byID>>

\* Load: when a tenant is listed twice, the last entry is kept.
Load(f) ==
  [id \in {f[i].tenantID : i \in DOMAIN f} |->
     f[CHOOSE i \in DOMAIN f : /\ f[i].tenantID = id
                               /\ \A j \in DOMAIN f : f[j].tenantID = id => j <= i]]

Known(id) == id \in DOMAIN byID

\* GetTenant answers the status of a tenant.
GetTenant(id) == IF Known(id) THEN byID[id].status ELSE NotFound

\* A mutation: the second result of the map lookup is not looked at.
MutHasDagVersion(id, product) == Known(id)

\* GetDagVersion answers a version, and not codes.NotFound.
HasDagVersion(id, product) == Known(id) /\ product \in byID[id].dagVersions

InitTenants ==
  /\ tenantsFile \in TenantFiles
  /\ serving = TRUE
  /\ byID = Load(tenantsFile)

\* An operator replaces the file: the process does not notice.
EditTenants(f) ==
  /\ f # tenantsFile
  /\ tenantsFile' = f
  /\ UNCHANGED <<serving, byID>>

StopTenantConfig ==
  /\ serving
  /\ serving' = FALSE
  /\ UNCHANGED <<tenantsFile, byID>>

\* main: when the file cannot be loaded, log.Fatalf ends the process again.
StartTenantConfig ==
  /\ ~serving /\ tenantsFile # BadFile
  /\ serving' = TRUE
  /\ byID' = Load(tenantsFile)
  /\ UNCHANGED tenantsFile

TenantConfigNext ==
  \/ \E f \in TenantFiles \cup {BadFile} : EditTenants(f)
  \/ StopTenantConfig
  \/ StartTenantConfig
=============================================================================
