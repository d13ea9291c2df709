------------------------ MODULE AuthenticationHandlers ------------------------
(***************************************************************************)
(* The handlers of authorization servers, identity providers,              *)
(* authenticators, device assurance, network zones and behaviors.  The     *)
(* names follow those of PolicyHandlers.                                   *)
(***************************************************************************)
EXTENDS HandlerSteps

\* okta_auth_server.  The status that is configured is not sent with a creation.
\* One with manual rotation of its keys is updated at the end of its creation.
AuthServerRequest == {"body"}
AuthServerStatus == SetStatus
AuthServerUpdate ==
  When({"status_changed"}, AuthServerStatus) \o Put(AuthServerRequest) \o ReadBack
AuthServerRead == Forgets
AuthServer == Guarded({"remove"}, Resource({"body", "status"},
  Post(AuthServerRequest) \o SetId \o ReadBack, AuthServerRead, AuthServerUpdate,
  Quiet(Deactivate) \o Quiet(Remove)))
AuthServerManual == [AuthServer EXCEPT !.create =
  Post(AuthServerRequest) \o SetId \o AuthServerUpdate \o ReadBack]

\* okta_auth_server_default.
AuthServerDefaultGet == Look
AuthServerDefaultUpdate ==
  AuthServerDefaultGet \o When({"status_differs"}, SetStatus) \o Put({"body"}) \o SetId \o ReadBack
AuthServerDefaultRead == FailsIfMissing
AuthServerDefault == Singleton(Resource({"body", "status"},
  AuthServerDefaultUpdate, AuthServerDefaultRead, AuthServerDefaultUpdate, << >>))

\* okta_auth_server_claim and okta_auth_server_claim_default.
AuthServerClaim == Resource({"home", "body", "status"},
  Post({"body", "status"}) \o SetId \o ReadBack, Forgets,
  Put({"body", "status"}) \o ReadBack, Remove)

AuthServerClaimDefaultFind == Check
AuthServerClaimDefaultCreate ==
  AuthServerClaimDefaultFind \o SetId \o Put({"body"}) \o ReadBack
AuthServerClaimDefault == Singleton(Resource({"body"},
  AuthServerClaimDefaultCreate, Forgets,
  When({"attributes_changed"}, Put({"body"})) \o ReadBack, << >>))

\* okta_auth_server_scope.
AuthServerScope == Resource({"home", "body"},
  Post({"body"}) \o SetId \o ReadBack, Forgets, Put({"body"}) \o ReadBack,
  Quiet(Remove))

\* okta_auth_server_policy.  One that is not active cannot be created.
AuthServerPolicyRequest == {"body", "status?"}
AuthServerPolicyUpdate ==
  Put(AuthServerPolicyRequest) \o When({"status_changed"}, SetStatus) \o ReadBack
AuthServerPolicy == Resource({"home", "body", "status"},
  When({"inactive"}, Refuse) \o Post(AuthServerPolicyRequest) \o SetId \o ReadBack,
  Forgets, AuthServerPolicyUpdate, Remove)

\* okta_auth_server_policy_rule, one handler at a time.
AuthServerPolicyRuleRequest == {"body", "status"}
AuthServerPolicyRuleStatus == When({"status_changed"}, SetStatus)
AuthServerPolicyRuleRead == Forgets
AuthServerPolicyRuleUpdate ==
  Check \o Put(AuthServerPolicyRuleRequest)
        \o When({"status_changed"}, AuthServerPolicyRuleStatus) \o ReadBack
AuthServerPolicyRule == Resource({"home", "body", "status"},
  Check \o Post(AuthServerPolicyRuleRequest) \o SetId \o ReadBack,
  AuthServerPolicyRuleRead, AuthServerPolicyRuleUpdate, Remove)

-----------------------------------------------------------------------------
\* Identity providers.  The status that is compared with the configured one is
\* that of the request, so that no call is ever made for it.
SetIdpStatus == << >>
IdpDelete == Quiet(Deactivate) \o Quiet(Remove)

IdpOidcRequest == {"body", "status?"}
IdpOidcRead == Forgets
IdpOidc == Resource({"body", "status"},
  Post(IdpOidcRequest) \o SetId \o SetIdpStatus \o ReadBack, IdpOidcRead,
  Put(IdpOidcRequest) \o SetIdpStatus \o ReadBack, IdpDelete)

IdpSamlRequest == {"body", "status?"}
IdpSamlRead == Forgets
IdpSaml == Resource({"body", "status"},
  Post(IdpSamlRequest) \o SetId \o SetIdpStatus \o ReadBack, IdpSamlRead,
  Put(IdpSamlRequest) \o SetIdpStatus \o ReadBack, IdpDelete)

IdpSocialRequest == {"body", "status?"}
IdpSocialRead == Forgets
IdpSocial == Resource({"body", "status"},
  Post(IdpSocialRequest) \o SetId \o SetIdpStatus \o ReadBack, IdpSocialRead,
  Put(IdpSocialRequest) \o SetIdpStatus \o ReadBack, IdpDelete)

-----------------------------------------------------------------------------
\* okta_authenticator.  A creation takes over the one that is there as it is; a
\* deletion deactivates it, whether that succeeds or not.
AuthenticatorRequest == {"body"}
AuthenticatorShown == {"body", "status"}
AuthenticatorCreate ==
  Ensure(AuthenticatorRequest \cup {"status"}) \o SetId
    \o When({"status_differs"}, SetStatus) \o ReadBack
AuthenticatorUpdate ==
  Check \o Put(AuthenticatorRequest) \o When({"status_changed"}, SetStatus) \o ReadBack
Authenticator == Keyed(Resource({"frozen", "body", "status"},
  AuthenticatorCreate, Showing(AuthenticatorShown, FailsIfMissing), AuthenticatorUpdate,
  Careless(Deactivate)))

\* One with the key custom_otp: its settings go with a call of their own before the
\* ID is set, and it cannot be updated.  No such call is made where one is taken
\* over; there the step fails like the search before.
AuthenticatorOTPCreate ==
  Ensure(AuthenticatorRequest \cup {"status"}) \o Aside \o SetId
    \o When({"status_differs"}, SetStatus) \o ReadBack
AuthenticatorOTPUpdate == Refuse
AuthenticatorOTP == [Authenticator EXCEPT
  !.create = AuthenticatorOTPCreate, !.update = AuthenticatorOTPUpdate]

\* okta_authenticator_method_webauthn and okta_authenticator_webauthn_custom_aaguid.
MethodWebauthnRequest == {"body"}
MethodWebauthnCreate == Check \o Put(MethodWebauthnRequest) \o SetId
MethodWebauthnRead == Showing({"body"}, FailsIfMissing)
MethodWebauthnUpdate == Check \o Put(MethodWebauthnRequest)
MethodWebauthnDelete == Reset
MethodWebauthn == Framework(Singleton(Resource({"body"},
  MethodWebauthnCreate, MethodWebauthnRead, MethodWebauthnUpdate, MethodWebauthnDelete)))

CustomAAGUIDCreate == Check \o Post({"body"}) \o SetId
CustomAAGUIDUpdate == Put({"body"})
CustomAAGUID == Framework(Keyed(Resource({"frozen", "body"},
  CustomAAGUIDCreate, Showing({"body"}, Forgets), CustomAAGUIDUpdate, Remove)))

\* okta_network_zone.
NetworkZoneRequest == {"body", "status?"}
NetworkZoneShown == {"body", "status"}
NetworkZoneCreate == Check \o Post(NetworkZoneRequest) \o SetId \o SetStatus
NetworkZoneUpdate == Check \o Put(NetworkZoneRequest) \o SetStatus
NetworkZone == Resource({"body", "status"},
  NetworkZoneCreate, Showing(NetworkZoneShown, Forgets), NetworkZoneUpdate,
  Quiet(Deactivate) \o Quiet(Remove))

\* The zones of the system, which are there from the start: they can be imported,
\* and a deletion only drops them from the state.  The status of the
\* DefaultEnhancedDynamicZone is set by calls before its replacement and after;
\* its name is taken, so that it cannot be created.
NetworkZoneSystemDelete == << >>
NetworkZoneEnhancedStatus == SetStatus
NetworkZoneEnhancedUpdate ==
  Check \o NetworkZoneEnhancedStatus \o Put(NetworkZoneRequest) \o SetStatus
NetworkZoneEnhanced == Singleton(Resource({"body", "status"},
  Check \o Refuse, Showing(NetworkZoneShown, Forgets), NetworkZoneEnhancedUpdate,
  NetworkZoneSystemDelete))

\* The DefaultExemptIpZone and the BlockedIpZone are refused by Create, and no call
\* is made for their status.
NetworkZoneReservedCreate == Check \o Refuse
NetworkZoneReservedUpdate == Check \o Put(NetworkZoneRequest)
NetworkZoneReserved == Singleton(Resource({"body", "status"},
  NetworkZoneReservedCreate, Showing(NetworkZoneShown, Forgets),
  NetworkZoneReservedUpdate, NetworkZoneSystemDelete))

\* okta_behavior.
BehaviorValidate == Check
BehaviorRule == {"body", "status"}
BehaviorLifecycle == SetStatus
BehaviorCreate == BehaviorValidate \o Post(BehaviorRule) \o SetId \o ReadBack
BehaviorRead == FailsIfMissing
BehaviorUpdate ==
  BehaviorValidate \o Put(BehaviorRule) \o When({"status_changed"}, BehaviorLifecycle) \o ReadBack
Behavior == Resource({"frozen", "body", "status"},
  BehaviorCreate, BehaviorRead, BehaviorUpdate, Remove)

-----------------------------------------------------------------------------
\* okta_policy_device_assurance_android, _chromeos, _ios, _macos and _windows.
DeviceAssuranceAndroidRequest == {"body"}
DeviceAssuranceAndroidCreate == Post(DeviceAssuranceAndroidRequest) \o SetId
DeviceAssuranceAndroidRead == Showing({"body"}, FailsIfMissing)
DeviceAssuranceAndroidUpdate == Put(DeviceAssuranceAndroidRequest)
DeviceAssuranceAndroid == Framework(Resource({"body"},
  DeviceAssuranceAndroidCreate, DeviceAssuranceAndroidRead,
  DeviceAssuranceAndroidUpdate, Remove))

DeviceAssuranceChromeOSRequest == {"body"}
DeviceAssuranceChromeOSCreate == Post(DeviceAssuranceChromeOSRequest) \o SetId
DeviceAssuranceChromeOSRead == Showing({"body"}, FailsIfMissing)
DeviceAssuranceChromeOSUpdate == Put(DeviceAssuranceChromeOSRequest)
DeviceAssuranceChromeOS == Framework(Resource({"body"},
  DeviceAssuranceChromeOSCreate, DeviceAssuranceChromeOSRead,
  DeviceAssuranceChromeOSUpdate, Remove))

DeviceAssuranceIOSCreate == Post({"body"}) \o SetId
DeviceAssuranceIOSRead == Showing({"body"}, FailsIfMissing)
DeviceAssuranceIOSUpdate == Put({"body"})
DeviceAssuranceIOS == Framework(Resource({"body"},
  DeviceAssuranceIOSCreate, DeviceAssuranceIOSRead, DeviceAssuranceIOSUpdate, Remove))

DeviceAssuranceMacOSRequest == {"body"}
DeviceAssuranceMacOSCreate == Post(DeviceAssuranceMacOSRequest) \o SetId
DeviceAssuranceMacOSRead == Showing({"body"}, FailsIfMissing)
DeviceAssuranceMacOSUpdate == Put(DeviceAssuranceMacOSRequest)
DeviceAssuranceMacOS == Framework(Resource({"body"},
  DeviceAssuranceMacOSCreate, DeviceAssuranceMacOSRead, DeviceAssuranceMacOSUpdate,
  Remove))

DeviceAssuranceWindowsRequest == {"body"}
DeviceAssuranceWindowsCreate == Post(DeviceAssuranceWindowsRequest) \o SetId
DeviceAssuranceWindowsRead == Showing({"body"}, FailsIfMissing)
DeviceAssuranceWindowsUpdate == Put(DeviceAssuranceWindowsRequest)
DeviceAssuranceWindows == Framework(Resource({"body"},
  DeviceAssuranceWindowsCreate, DeviceAssuranceWindowsRead,
  DeviceAssuranceWindowsUpdate, Remove))
=============================================================================
