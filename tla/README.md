# gps-tracker: specifications

TLA+ models of the gps-tracker system (Go backend, ESP32 firmware, Astro/React
frontend), their TLC runs, and TLAPS proofs. Paths below are relative to the
repository's root. `PROJECT.json` lists components, runs, mutants, the map from
definitions to source lines, hazards, findings and theorems in machine-readable form.

## 1. The system

People sign up through Authula, an external authentication library that shares the
Postgres database with the backend. Users register GPS boards ("devices"), share them
with other users as viewers, and issue one API key per board. A board polls its GPS
receiver and posts locations with that key. The frontend shows devices and their latest
location.

| component | state | operations | talks to |
|---|---|---|---|
| Users service (`backend/internal/app/users`) | table `users` | create, get-or-create, first-user promotion, update, change password flag, soft delete | Authula (creates identities, stores passwords), every middleware |
| Authentication chain (`backend/internal/auth`, `transport/http/middleware`) | the row a request carries in its locals | RequireInitialized, AuthSession, RequirePasswordChanged, RequireUserRole, the sign-up hook | Authula sessions, users service |
| Devices and access (`app/devices`, `app/access`) | tables `devices`, `user_device_access` | create, rename, soft delete, grant, revoke; per-device role gate | users service (target lookup) |
| API keys (`app/apikeys`) | table `device_api_keys` | create, revoke, authenticate | device gate, ingest middleware |
| Location ingest (`app/locations`) | table `locations` | insert (first write wins), latest | API keys, device gate |
| Firmware (`open-gps-iot`) | current payload, WiFi/HTTP state | setup, poll, post with one retry | ingest endpoint over a lossy network |
| Frontend session (`frontend/src/lib/auth`, `components/react/auth`) | auth store, bootstrap status of each gate, sign-in and sign-up form | sign in/up/out, Google, session refresh, redirects | Authula, `/api/auth/me`, bootstrap |
| Frontend screens (`components/react`, `components/admin`) over the hooks in `lib/api/services` | rows, loading flag, dialogs and drafts of the devices, users, API-keys, device and profile pages | list, create, edit, delete, grant, revoke, issue a key | backend |
| Wiring, validation, maintenance, deployment, map and styles | none of their own | | |

### What is hard

The backend takes no locks and uses a transaction only to create or rename a device.
Every other operation is a sequence of statements, each committed on its own, and each
HTTP request runs in its own goroutine. So:

* **Check, then act.** `HasSuperAdmin` before an insert or a promotion; the requester's
  row before the target is marked; the grant's role before it is ended; the target user
  before the upsert; the active key before a new one. What holds the line is in each case
  something else: a partial unique index, a `deleted_at IS NULL` in the UPDATE, a gate.
* **Rows read early, used late.** AuthSession reads the user once; gates and handlers
  judge that copy. RequireDeviceRole reads the role once; the handler's statements follow.
* **Partial failure.** Creating a user spans Authula's user, Authula's account and the
  local row; changing a password spans two tables; none of it is transactional.
* **Soft deletion.** Deleted rows stay and still occupy unique indexes, while the queries
  do not see them; Authula, which shares the table, does not know of `deleted_at`.
* **Unreliable delivery.** A board repeats posts whose answer was lost.
* **Overlapping calls in the browser.** Answers arrive after the state they belong to:
  the row may be gone, the dialog closed, the component unmounted. One boolean per hook
  serves all its calls, and closures keep the rows of an earlier render.
* **Refusals that do not reject.** The hooks' client resolves with `data: null` when the
  server refuses and rejects only when no answer comes.

### What makes each part correct

* Users: at most one super_admin ever, and one before anybody is served; a temporary
  password opens nothing but the change-password route; a deleted user never gets in and
  his row never changes; only the owner or the super_admin deletes an account.
* Device access: one owner per registered device, for good; nobody else acts behind an
  owner-only gate; grants and revocations touch viewers only; deleted devices are frozen.
* API keys: at most one active key per device, whatever creates race; a revoked key never
  becomes active again.
* Ingest: a fix is recorded at most once, first write wins; the latest location is the
  one with the greatest `recorded_at`, whatever the order of arrival.
* Frontend session: the store holds a user only after the server confirmed the session to
  this page load; auth operations never overlap; no form is offered before the session
  check is over; the gates' redirects end.
* Frontend screens: with nothing in flight the rows shown are those of the server, apart
  from what the page cannot know and from devices beyond the first page of the listing;
  nothing is deleted that was not confirmed in its own dialog; a revealed key works; no
  screen stays in its loading state, except the profile whose request the server refuses
  (section 5).

## 2. Plan

| order | modules | status |
|---|---|---|
| 1 | `Users`, abstract `UserDirectory`, `MCUsers`, `UsersProofs` | done; eight theorems |
| 2 | `DeviceAccess`, abstract `AccessBook`, `MCDeviceAccess`, `DeviceAccessProofs` | done; six theorems |
| 3 | `ApiKeys`, abstract `KeySlot`, `ApiKeysProofs` | done; six theorems |
| 4 | `Ingest` (board, lossy network, ingest route, `locations`), abstract `LocationLog`, `IngestProofs` | done; six theorems |
| 5 | `Session` (auth store, gates, forms, page loads), `SessionProofs` | done; six theorems |
| 6 | `Browser` (what the screens share), `DeviceTable`, `UserTable`, `KeyTable`, `DevicePage`, `Profile`, composed by `Pages`; `ScreensProofs`, `KeyTableProofs`, `PagesProofs` | done; five theorems |
| 7 | a composition of DeviceAccess, ApiKeys and Ingest through the shared `devices` table | left out: its one question, whether a request of a deleted device is accepted, is answered by `DeadKeysRefused`, since `ApiKeys` has the deletion of devices as an action |

Every invariant, action property and refinement that a passing run checks is proved for all
values of the constants. Of the five liveness properties the safety core is proved (section
6); what the runs alone show is that fairness turns it into an outcome.

## 3. The modules

### Users

State: `users` is the table, one row per email (rows are never removed and `email` is
UNIQUE, so the email identifies the row; ids and emails are used alike). `authula`,
`credential` and `session` are what the backend can observe of Authula: identities,
the password behind an email, valid sessions. `handed` records which temporary
passwords reached an administrator. `req` holds the requests in flight.

A request is a record with a program counter; each action runs one statement:

| code | actions |
|---|---|
| `SignupMirrorHook`, Authula sign-up | `SignUp`, then the GetOrCreate steps |
| `RequireInitialized` | `RequireInitialized` |
| `AuthSession` | `Authenticate`, then GetOrCreate |
| `Service.GetOrCreate`, `promoteIfFirstUser` | `GetByEmail`, `PromoteCheck`, `PromoteToSuperAdmin`, `CreateCheck`, `InsertUser` |
| `RequirePasswordChanged`, `RequireUserRole`, route table | `Dispatch` |
| `Service.CreateUser` | `CreateUser`, `CreateAuthulaUser`, `CreateAuthulaAccount`, `InsertCreated` |
| `UsersHandler.Update` | `UpdateUser` |
| `UsersHandler.ChangePassword` | `VerifyOldPassword`, `WritePassword`, `ClearMustChange` |
| `Service.SoftDeleteUser` | `CheckRequester`, `SoftDeleteUser` |
| any error, client disconnect, restart | `Fail` |

`AuthulaSharesTable` is TRUE as deployed: Authula's insert creates the row in `users`
with the column defaults. With FALSE the table is a separate projection, which the code
of `GetOrCreate` and `CreateUser` is written for; only then do their own inserts
succeed, so both settings are checked. `Ops` selects the kinds of request of a run.

`UserDirectory` is the abstract specification: addresses go from absent to active to
deleted, and the super_admin role is given once. `ImplementsDirectory` states that the
tables refine it.

### DeviceAccess

State: `device` (the `devices` table, indexed by firmware id, which is UNIQUE over
deleted rows too), `grant` (`user_device_access`, one row per user and device, role
"none" for no row), `alive` (users whose row is not deleted), `req`. Requests enter as
those of an authenticated user who is still there; module Users shows what that costs.

| code | actions |
|---|---|
| routes `/devices...` | `Arrive` |
| `RequireDeviceRole`, `AccessService.RequireRole` | `RequireDeviceRole` |
| `DevicesAdapter.Create` (one transaction) | `CreateDevice` |
| `DevicesAdapter.Update` (one transaction) | `UpdateDevice` |
| `DevicesAdapter.SoftDelete` | `SoftDeleteDevice` |
| `AccessService.GrantAccess` | `CheckTarget`, `UpsertGrant` |
| `AccessService.RevokeAccess` | `CheckGrant`, `RevokeGrant` |
| `users.SoftDeleteUser` | `DeleteUser` |
| any error, client disconnect, restart | `Fail` |

The two transactions are single actions: Postgres makes their writes visible together,
and a failure before the commit leaves nothing (`Fail`). `renamed` stands for name and
vehicle type, which `Update` sets together. `AccessBook` is the abstract book of owners
and viewers.

### ApiKeys

State: `deleted` (soft-deleted devices), `key` (the table `device_api_keys`, one entry per
token that may ever be issued; revoked rows stay), `req`. The owner-only gate of the two
owner's routes is in DeviceAccess; here a request enters behind it. A request's `dead` is
a history flag, set on arrival and never read by an action: the board's key was revoked or
belongs to another device, or its device was deleted, before the request came.

| code | actions |
|---|---|
| `generateToken`, role gate passed | `ArriveCreate` |
| `Service.Create`, pre-check | `PreCheck` |
| `Adapter.Create`, migration 000017 | `InsertKey`, `InsertRefused` |
| `APIKeysHandler.Revoke`, `RevokeAPIKey` (by key id alone, idempotent) | `ArriveRevoke`, `RevokeKey` |
| `RequireDeviceAPIKey` | `ArriveIngest`, `ResolveDevice`, `LookUpKey`, `HandOver` |
| `SoftDeleteDevice` | `DeleteDevice` |
| any error, client disconnect, restart | `Fail` |

Tokens are 256 random bits, so a fresh one is modelled as unused by any row and any other
request; only its hash is stored, which the model identifies with the token. A create
request that fails gives its token back to the pool, which stands for a fresh one. `KeySlot`
is the abstract specification: each device has a slot, `Issue` fills an empty one with a
token never used before, `GiveUp` empties it.

### Ingest

One board and the backend. `board` holds the firmware's variables: `fix` is `lastFix`,
`conn` the POST whose answer it waits for, `attempt` the first try or the retry. `fresh`
says that it polled since its last upload: polls are 2 s apart and uploads 10 s, and the
loop polls before it uploads, so there is always one in between. `clock` is the second the
receiver last reported; it may report the same second again, with another position. `post`
holds the POSTs in flight, those the board gave up on included, `locations` the table.
`trusted` stands for what ApiKeys models: the board's key, which is compiled into the
firmware, is active and its device is there. `acked` and `board.unsent` are history.

| code | actions |
|---|---|
| `setup` | `SetUp` |
| `loop`, `GpsBoard::pollFixPayload` | `Poll` |
| `loop`, `transport_post_locations` | `BeginUpload`, `Retry`, `AttemptFailed` |
| `post_once` | `SendPost`, `CannotConnect`, `TakeAnswer`, `TimeOut` |
| watchdog, reset | `Reset` |
| `RequireDeviceAPIKey` | `Authenticate` |
| `ValidateRequestBody[IngestLocationRequest]` | `Validate` |
| `LocationsHandler.Ingest`, `InsertLocation` query | `InsertLocation` |
| a statement fails; a request is lost, the backend restarts | `Break`; `Lose` |
| key revoked or device deleted | `Distrust` |
| `GetLatestLocationForDevice` | `Latest` (an operator, since it only reads) |

A POST that times out stays in flight and may still insert, beside the retry or a later
fix. A request that is lost while the board waits leaves it to time out (`gone`). The log
of `LocationLog` takes a fix only when it has none of that second.

Positions with a latitude or longitude of exactly 0 are left out: the request's `required`
tag refuses them (a hazard in `PROJECT.json`).

### Session

One browser tab and the server behind it. `page` is the page loaded; `user`, `loading` the
two atoms of the auth store; `gate` what the page's gate knows of the bootstrap status;
`form` and `inner` the form and the gate around the sign-up form; `calls` the requests in
flight; `session` the cookie, `setup` whether an active user exists. `vouched` and
`outcome` are history. Every navigation is a full page load: it keeps `session` and
`setup` only, and the requests in flight are answered to nobody. A request is served and
its answer delivered in two steps.

| code | actions |
|---|---|
| `AuthProvider`, `useHydrateOnce`, `authService.getSession` | `HydrateOnce`, `SessionAnswered` |
| `ProtectedRoute`, `PublicOnlyRoute`, `OAuthCallback` | `MountGate`, `StatusAnswered`, and `Render` in every step |
| `BootstrapGate`, `FirstRunGate` | `BootstrapAnswered`; `MountFirstRunGate`, `FirstRunAnswered` |
| `LoginForm`, `SignupForm`, `authService.signIn`, `signUp` | `SubmitLogin`, `SubmitSignup`, `SignInAnswered`, `SignUpAnswered` |
| `authService.signInOAuth` and the provider's round trip | `GoogleSignIn`, `OAuthAnswered`, `ProviderAnswers` |
| `LogoutButton`, `authService.signOut` | `ClickLogout`, `SignOutAnswered` |
| the endpoints behind them | `Serve` |
| links and typed addresses | `Visit` |
| lost requests and answers, sessions that end | `Lose`, `Expire` |

`Render` is one React render with its effects: store and gate take their new values,
components that are no longer rendered lose their state, and either the gate redirects or
it asks for the bootstrap status it still lacks.

### The screens

`Browser` is what the five screens share: requests, the server's answers and refusals,
lost messages, and the controls. A control is modelled as the set of what it lets the
visitor do (`Button`, `Input`, `Modal`, `ConfirmActionModal`), so that a guard of an
action reads as the component does: `"confirm" \in DeviceDeleteModal`. The screens are
page loads whose mount effect has just run; `Pages` picks one. What other sessions do to
the server's table is `Elsewhere`. `doubt` is history: the rows this page cannot know or
was not sent.

The users and the keys are listed at once, the devices by pages, of which the app asks for
the first one only (`getAllDevices`, 20 rows, no pager), on the devices page and for the
picker of the keys page alike. `ServePage` and `ServeKeyDevices` send some `PageSize` of the
devices when there are more (`FirstPages`); that these are the newest is left open. What is
left out is in `doubt`, since the page can tell nothing of it.

`ProfileShows` is what the profile view renders. It is not told by the loading flag: without
a profile and without an error it is the skeleton, whether or not anything is in flight.

| module | code | handlers | continuations |
|---|---|---|---|
| `DeviceTable` | `DeviceTable.tsx`, `DeviceForm`, rows and cards, `useDeviceService` | `CreateDevice`, `StartEdit`, `TypeEditName`, `SaveEdit`, `StartDeleteDevice`, `TypeDeviceName`, `ConfirmDeleteDevice`, `DeviceEscape`, open and close | `DevicesLoaded`, `DeviceCreated`, `DeviceUpdated`, `DeviceDeleted` |
| `UserTable` | `UserTable.tsx`, `CreateUserForm`, `useUserService` | `CreateUser`, `StartDeleteUser`, `TypeUserName`, `ConfirmDeleteUser`, open and close | `UsersLoaded`, `UserCreated`, `UserDeleted` |
| `KeyTable` | `ApiKeyTable.tsx`, `ApiKeyForm`, `ApiKeyReveal`, `useApiKeyService` | `IssueKey`, `CopyKey`, `SavedKey`, `PickDevice`, `OpenRevoke`, `RevokeKey`, open and close | `KeysLoaded`, `KeyDevicesLoaded`, `KeyIssued`, `KeysRefreshed`, `KeyRevoked` |
| `DevicePage` | `DeviceDetail.tsx`, `AdminDeviceDetail.tsx`, `useLocationService` | `SubmitGrant`, `AskRevoke`, `TypePhrase`, `ConfirmRevoke`, open and close | `DeviceLoaded`, `AccessGranted`, `AccessRevoked`, `LatestLoaded` |
| `Profile` | `ProfileView.tsx`, `SidebarUserCard.tsx`, `useProfileService` | `RetryProfile` | `Refreshed`, `RefreshFailed` |

`seen` in a request is what its closure captured, the list that `createDevice` and
`createUser` extend. `vetted` says that the confirmation was typed into the dialog that
sent the request; no action reads it. `tangled` on the keys page says that two requests of
the hook have overlapped (section 5), `strayed` holds the keys whose revocation was sent from
here and never answered.

## 4. Runs

The passing runs use two request slots: every race in this code is between two requests, and a
third actor (deletion of users, sign-in, end of session) is an action of its own.
Each of the backend's runs stays finite without further bounds, because rows only move
forward or hold values of small sets; the frontend's runs bound lost messages, expired
sessions and changes made elsewhere by `MaxFaults`.

| run | what it asks |
|---|---|
| `users_deployed` | Shared table, two addresses, sign-up, change-password, edit and delete requests, failures. Types, the first-user rule, no admission of the deleted, frozen tombstones, who may delete, and that a sign-up that succeeds leaves a super_admin (`SignUpElects`). |
| `users_projection` | Separate projection, with admin-created accounts, password changes and deletions. The temporary-password gate, refinement of `UserDirectory`. |
| `users_live` | Shared table, no failures, `FairSpec`: every sign-up hook ends with a super_admin in place. |
| `device_access` | Two users, two devices, all routes, failures, deletion of users. One owner, owner-only steps, frozen deleted devices, refused late targets, refinement of `AccessBook`. |
| `api_keys` | Two devices, three tokens, `FairSpec`, failures on. One active key, dead keys refused, issued keys frozen, refinement of `KeySlot`, and every Create that was not cut short finds or leaves an active key. |
| `ingest` | One board, two seconds, two places, two POSTs in flight, `FairSpec`. Acknowledged fixes are stored, zeroed payloads are not, the latest location moves forward, uploads end, refinement of `LocationLog`. |
| `users_undeletable` | Violation: the super_admin deletes himself. |
| `users_provision` | Violation: `POST /users` conflicts with the row its own first half inserted. |
| `session` | Every page, session and setup state as the start, two lost messages or expired sessions, `FairSpec`. The store is vouched for, auth calls do not overlap, no form flashes, a blank page waits for something, redirects converge and settle. |
| `session_error` | Violation: a refused sign-in leaves a blank form without the error. |
| `pages` | Each screen with any table of two rows, two names and two keys, pages of one row, one fault, `FairSpec`. Flags tell of requests, rows agree with the server, deletions are vetted, revealed keys are live, loading ends but for a refused profile. |
| `pages_deleted` | Violation: a refused DELETE is shown as a deletion. |

Two addresses suffice for the first-user race (two candidates) and for deletion (one who
deletes, one who is deleted). Two users and two devices let a grant race a revocation
of the same row, and a registration race another of the same firmware id, while a
second device shows that nothing leaks across. Three tokens let a device give up one key,
hold a second and be refused a third. Users, devices, addresses and request slots are
interchangeable, so the safety runs of the backend use symmetry; those with a liveness property,
`users_live`, `api_keys` and `ingest`, do not (nor do `session` and `pages`). In `ingest` two POSTs are a retry beside the
first attempt, or a new fix beside a late one; two seconds order them, and two places tell
apart fixes of one second. In `session` two faults let the gate's question and the session
check both fail, or a session end and an answer get lost. In `pages` two rows are the row
acted upon and the one that must stay as it is, two names let these two rows share a name or
not, and two keys let a device lose one and get another. With `PageSize` 1 the first page of
the devices is empty, exactly full, or one row short, while a second row can still come on
screen by a create. (The proofs are for every size.)

**Deadlock.** `device_access` switches the deadlock check off: once every user is deleted
nobody can send a request, and that is a state the system may really reach. So do `pages`
and `pages_deleted`: a page that has loaded and offers nothing to click, such as the
profile's skeleton after a refused request, waits for ever.

**Fairness.** `users_live` and `api_keys` assume weak fairness of the steps of each request,
and `ingest` of the upload as a whole, whose waits all end by a timeout or a fixed delay.
A goroutine that was started runs until its handler returns, and each statement returns or
fails; clients owe nothing, so arrivals, sign-ins, deletions, polls and the end of sessions
are not fair. In `session` and `pages` what is fair is everything that goes on without the
visitor: mount effects, the server's answers, the continuations of promises. The browser's
event loop runs them as long as a page is open, and the client's requests end with an answer
or an error. The visitor owes nothing, and losses are not fair. Failures are off in `users_live`, since a hook whose statement fails elects
nobody; in `api_keys` they are on and `CreateMeetsAKey` allows for them, and in `ingest`
nothing of the backend or the network is fair.

## 5. Findings

The four violation runs show disagreements between code and what the repository says of
it; `PROJECT.json` quotes the lines:

* `users_undeletable`: the super_admin can be soft-deleted; `docs/db/enums.md` says not.
* `users_provision`: creating a user through the API answers 409 and leaves the account
  behind, because Authula already inserted the row.
* `session_error`: the error of a refused sign-in is never seen. Signing in raises the flag
  that makes `PublicOnlyRoute` unmount the form, and the form mounted afterwards is blank.
* `pages_deleted`: a DELETE the server refuses resolves without an error, so the row goes
  and the toast says that it was deleted.

Further disagreements, met while modelling and not given a run:

* Once the super_admin is deleted and nobody is left, the system reports itself empty, and
  `handlers/system.go:11-14` promises that the first user becomes super_admin; but
  `idx_users_one_super_admin` still counts the deleted row and refuses.
* A user who signs up himself keeps the column default `must_change_password = TRUE` and
  stops at the gate, which is there for users an admin created
  (`require_password_changed.go:11-13`, `queries/users.sql:18-20`).
* Issuing a key does not replace the prior one in the same transaction
  (`docs/api/APIKeys.md:9`, `Authentication.md:172`): it is refused until that is revoked.
* A board does not post a fix again in the cycle after a failed upload
  (`open-gps-iot/include/transport.h:51`), because a poll has replaced it.
* `ApiKeyTable.tsx:161-164` says that a plain key never survives a reopen of the modal. It
  does when the modal is closed before the answer: `handleIssue` sets it all the same, and
  the next opening shows it. `RevealedKeyLive` says that it is at least a key that works.
* Done on the keys page stays enabled while a request is in flight. If it overlaps a
  revocation the list of the older answer may bring the revoked row back, or a key that has
  been revoked may stay on display. `tangled` marks these states, and `RevealedKeyLive` and, on
  this page, `ListFaithful` leave them out. After closing the reveal view without Done the picker still offers the device
  whose key was just issued.
* While `DeviceDetail` loads it renders a loading text instead of `AdminDeviceDetail`
  (`DeviceDetail.tsx:109-117`), whose dialogs and inline errors (`AdminDeviceDetail.tsx:68`)
  are gone after every grant and revocation, failed ones included.
* The profile page has no way out of a refused `/users/me`. `profileService.ts:36-39` says
  that errors are captured so that the caller can render an inline retry, and `:49-51` that
  any non-401 failure is surfaced via `error`; but a refusal resolves with `data: null`, and
  lines 71-76 then set neither a profile nor an error. `ProfileView.tsx:78-80` renders the
  skeleton for good. `LoadingEnds` is about what is rendered and names this case
  (`MeRefused`) as its one exception; without it TLC finds the property violated within the
  bounds of `pages`.
* A visitor with more than 20 devices sees the newest 20 and cannot issue a key for another:
  `getAllDevices` asks for the first page (`deviceService.ts:72-84`), and nothing on the
  screens asks for the next, although the answer carries the number of pages
  (`devices.go:53-68`).
* The answer of a save closes whichever row is then being edited.
* The `error` of the list hooks is never set, so the retry views of the tables are
  unreachable; so are the null branches in `profileService.ts:50-54` and
  `locationService.ts:43-49`, and the branch for 409 in `apiKeyService.ts`, since a refused
  request does not reject.

## 6. Proofs

Everything is proved for arbitrary sets of addresses, users, devices, names, keys,
tokens, seconds, places and request slots, every bound on faults, and both values of the Boolean parameters, from the named assumptions of the modules
only (placeholders are not members of the sets, flags are Booleans, `Ops` holds known
operations).

`UsersProofs`:
* `UsersTypeOK`: TypeOK is inductive. A request update is one of four shapes (go to a
  step, hold a row, reply, arrive), each with its lemma.
* `UsersOneSuperAdmin`. The invariant is not inductive as it stands. `RoleSteps` shows
  that only promotion and the two inserts give the role and that each is refused by the
  index when another row holds it (`OneHolder`). That somebody holds it before a request is
  served needs what requests carry between statements. `IdentityInv`: whoever has a row,
  a password, a session or a request in flight is known to Authula, so Authula's insert
  never lands on an existing row. `ServiceInv` extends "admitted" to requests about to be
  admitted without electing anybody, which carry a row of role user chosen while a
  super_admin existed, or the super_admin's own row.
* `RowStep`: a step leaves the table alone or does one of five things to one row (insert,
  promote, edit, clear the flag, delete), the last four to active rows only. It needs
  `RowsInv`: a deleted row is a row, and a row on its way to an insert has a role and, unless
  it is the super_admin's, the flag. `UsersTombstonesFrozen` and, with the two values of the
  mapping, `UsersImplementDirectory` follow.
* `UsersOnlyOwnerOrAdminDeletes`: the role read one statement before the write is still there
  (`DeleteInv`, by `RoleSteps`).
* `UsersDeletedNeverAdmitted`: a late request is before GetOrCreate's lookup or on its insert
  branch (`LateInv`); there the row that makes it late also makes the insert fail.
* `UsersTempPasswordNeverServed`: from the step before a temporary password is written until
  its owner replaces it, there is a super_admin other than him and his row, if any, has the
  flag (`TempRows`), and so has each copy of it that a request of his holds (`TempCopies`).
  Nobody in flight is given one, for Authula knows him already; nobody clears the flag early,
  for a request about to clear it has replaced the password (`CredInv`).
* `UsersSignUpElects`: whatever keeps a mirror hook from giving the role away shows that
  somebody holds it. A row that is gone shows that, for only a request that is served
  deletes; with the separate projection any row does, and with the shared table the row of
  the hook's own sign-up keeps it off the insert branch while nobody holds the role
  (`ElectInv`, `HookAt`).

`DeviceAccessProofs`, all from one inductive invariant `AccessInv`:
* `OwnerRows`: an owner's row is live, is the only one of its device, and exists exactly
  when the firmware id is taken. `Pending`: a request behind an owner-only gate carries
  the owner as its actor, and one about to write a grant names somebody else.
* Each needs the other: the writes of grant and revoke spare the owner's row because
  their actor is the owner and the target is not, and `Pending` survives every step
  because no step takes ownership away.
* From it follow `DeviceAccessTypeOK`, `DeviceAccessOneOwner` and
  `DeviceAccessOwnerOnlySteps`.
* `DeviceAccessLateTargetsRefused`: users are never revived, so a target gone on arrival is
  gone when the service looks it up (`LateInv`). `DeviceAccessDeletedFrozen`: registration
  needs a free firmware id, and every other write to a device an active row (`DeletedStay`).
* `DeviceAccessImplementsBook`: the book's entry of a device is computed from its live grants
  (`OwnerIn`, `ViewersIn`), a device that is not there has none (`GrantsTaken`), and each
  write is then one step of the book or none.

`ApiKeysProofs`, all from one inductive invariant `KeyInv`:
* `OneActiveKey` itself, which the guard of the insert keeps, needs nothing else; what
  follows is about the values requests carry from one statement to the next.
* `Fresh`: a token in the hands of a Create is in no row and in no other Create's hands,
  so the insert overwrites nothing and spares the others' tokens.
* `Dead`: a request that was dead on arrival is either before the device lookup, with an
  unusable pair of device and key, or before the key lookup, with a key that is not the
  device's active one; never behind it. It survives the steps of others because of
  `KeysMove`, proved of every step: issued keys go from active to revoked only, stay with
  their device, and deletions are for good. That its key was issued keeps it apart from
  the tokens of Creates.
* From these follow `ApiKeysTypeOK`, `ApiKeysOneActiveKey`, `ApiKeysDeadKeysRefused`,
  `ApiKeysIssuedKeysFrozen` and, with the value of the slot map computed from the single
  active key (`SlotInValue`), the refinement `ApiKeysImplementKeySlot`.
* `ApiKeysCreatesMeetAKey`: each step leaves a Create where it is, takes it from its check to
  its insert, or ends it, by a failure or while its device has an active key.

`IngestProofs`, all from one inductive invariant `IngestInv`:
* `PostsOK`: what waits to be inserted passed validation, and what was answered 201 has a
  row. `Match`: the POST the board waits for carries the payload the board still holds,
  because the loop does not poll while it waits. Together they make an acknowledgement
  about the right fix (`AckedOK`); rows never go away.
* `TableOK`: all rows are real fixes, one per second, and a table with rows has a latest
  one. That a maximum exists is kept as a part of the invariant, step by step, since
  induction over finite sets is out of reach.
* `TableSteps`: every step leaves the table alone or inserts a real fix if its second is
  free. The refinement of `LocationLog` and `IngestLatestMovesForward` follow.
* `IngestUploadWindsDown`: `StepsLeft`, at most five, is zero exactly outside an upload, every
  step of an upload lowers it and only the loop raises it. Only a first attempt is followed
  by the pause (`OnePause`).

`SessionProofs`, the first four theorems from one inductive invariant `SessionInv`:
* The store has one boolean for four operations and the session check. `Alone` and
  `Flagged`: whenever one of them is in flight it is the only one, the flag is up and the
  page's own session check has begun. Sign-in, sign-up, Google and sign-out can only be
  clicked with the flag down, and the session check starts once per page load, before any
  gate has shown anything (`Gated`).
* `Confirmed`: a positive answer to `/me` on its way has already been recorded in `vouched`.
  A render only adds questions for the bootstrap status (`CommitCalls`).
* From it follow `SessionTypeOK`, `SessionStoreVouched`, `SessionNoOverlap` and
  `SessionNoFormFlash`.
* `PageInv` says what a page owes the visitor: a redirect that is due has been followed
  (`Rendered`), each wait has its request behind it (`Awaited`, `FirstAwaited`), each request
  stands where the page that sent it left it (`Placed`), and answers agree with the `users`
  table, which only gains its first user (`TrueReplies`, `Truthful`).
  `SessionBlankMeansBusy` follows.
* `SessionRedirectsConverge`: `Trips` counts the page loads from the page as it stands, with
  what it knows and waits for, to one that waits for the visitor, supposing that nothing more
  is lost. Every step that is no fault keeps it or lowers it, and a page load lowers it
  (`Shorter`, one lemma per step); the two invariants together supply what each step may rely
  on. Stated while the page has not settled: a visitor may set out on a new way.

`ScreensProofs`, `KeyTableProofs` and `PagesProofs` have one inductive invariant per screen;
`PagesInv` joins them, and a step never leaves the page it is on.
* The list screens (`ListScreen`): at most one request is in flight, and it accounts for
  every difference between the rows shown and the server's table (`Reflected`); rows in
  doubt aside. A create keeps the rows of its render (`Kept`), which is harmless only
  because nothing else was in flight since. `Vetting` says that a matching name in the
  dialog was typed there.
* The keys page (`KeysInv`): until a Done overlaps another request, a key whose secret is,
  or is about to be, on display is live and named by no row, no dialog and no request, so
  that nothing on the page can revoke it. Only the first load and the refresh after Done
  bring its row, and neither leaves a secret on display (`Guarded`). Until then, too, a row
  names its device's active key, one revoked elsewhere, or one whose revocation is in flight
  or was never answered (`Clean`). The flag, however, is up with a request behind it
  whatever overlaps (`Flagged`).
* The device page (`DeviceScreenInv`): as for the lists, with the viewers the device was
  loaded with, and the reload that follows a grant or a revocation.
* A listing leaves rows out only if they go into `doubt` (`ServeRowsStep`), for every size of
  a page; of all the others the page is sure again.
* The profile page (`ProfileInv`): an island's flag is up exactly while it has a request.
* From these follow `PagesTypeOK`, `PagesFlagsTellOfRequests`, `PagesListFaithful`,
  `PagesDeletionsVetted` and `PagesRevealedKeyLive`.

Only model-checked: the five liveness properties, because fairness, and the ENABLED in it,
is beyond the prover's reach. Of each the part that is about the code is proved: that no
step leads away from the outcome, and that an end without it cannot be reached.

| liveness, by TLC | its safety core, proved |
|---|---|
| `FirstSignUpElects` | `UsersSignUpElects`: no hook ends without a super_admin, failed statements aside |
| `CreateMeetsAKey` | `ApiKeysCreatesMeetAKey`: no Create ends without an active key or an error |
| `UploadEnds` | `IngestUploadWindsDown`: an upload takes at most five steps |
| `RedirectsSettle` | `SessionRedirectsConverge` and `SessionBlankMeansBusy`: page loads shorten the way, and a blank page waits for something |
| `LoadingEnds` | `PagesFlagsTellOfRequests`: a raised flag has a request behind it, which fairness answers; what the profile view renders with its flag down is left to TLC |

`ApiKeysCreatesMeetAKey` and `IngestUploadWindsDown` are stated beside their proofs and
belong to no run. Induction over data and RECURSIVE operators would be out of reach, too;
these modules use neither.

## 7. What is not modelled, and why

* Authula itself: sessions, OAuth and password checks appear only as their effect on the
  state the backend reads. Change-password and sign-in are as permissive as the backend
  lets them be.
* Listing and reading routes, in the backend's modules: they change nothing there. Those
  whose answers the screens keep are modelled with the screens (`ServeList`, `ServePage`,
  `ServeKeyList`, `ServeKeyDevices`, `ServeDevice`, `ServeLatest`, `ProfileServer`).
* The second comparison of the typed name in the handlers of the dialogs
  (`DeviceTable.tsx:249` and the like): it reads the state of the render whose button was
  pressed, and that button makes the same comparison. The mutant of `DeletionsVetted`
  therefore stands for a change of both.
* Frontend views: `DeviceMap`, `RoutePlayer`, `MapPopover`, the component galleries, styles,
  translations and the Astro pages draw what they are given; toasts are reduced to the last
  one said, without their timers. `updateUser` and `getApiKeys` have no caller.
* The order of rows (which of them come first in a listing included), and fields of a row
  other than its name.
* Elapsed time: whether `setup` fits into the watchdog's 30 s is listed as a hazard only.
* `Service.Authenticate` of the API keys repeats what the middleware does and has no
  caller; `expires_at` is never set and `last_used_at` never written.
* Validation, error texts, configuration, generated queries, partition
  maintenance, deployment and views: formatting, wiring or code outside the program.
