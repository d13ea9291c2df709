------------------------ MODULE GovernanceHandlers ------------------------
(***************************************************************************)
(* The handlers of the resources of identity governance.  The definitions  *)
(* are named as in OrgHandlers.  A handler of the framework that only      *)
(* warns and writes no state is one that refuses: the creation or the      *)
(* update is an error for Terraform.                                       *)
(***************************************************************************)
EXTENDS HandlerSteps

\* okta_campaign.  Every attribute that can be configured replaces it.
CampaignRequest == {"frozen"}
CampaignCreate == Post(CampaignRequest) \o SetId
CampaignRead == FailsIfMissing
Campaign == Framework(Resource({"frozen"},
  CampaignCreate, CampaignRead, Refuse, Remove))

\* okta_entitlement.
EntitlementReplace == {"body"}
EntitlementCreate == Post({"body"}) \o SetId
EntitlementRead == FailsIfMissing
EntitlementUpdate == Put(EntitlementReplace)
Entitlement == Framework(Resource({"body"},
  EntitlementCreate, EntitlementRead, EntitlementUpdate, Remove))

\* okta_entitlement_bundle.  Its status is computed, and sent back as it was.
EntitlementBundleCreateBody == {"body"}
EntitlementBundleUpdateBody == {"body"}
EntitlementBundleCreate == Post(EntitlementBundleCreateBody) \o SetId
EntitlementBundleRead == FailsIfMissing
EntitlementBundleUpdate == Put(EntitlementBundleUpdateBody)
EntitlementBundle == Framework(Resource({"body"},
  EntitlementBundleCreate, EntitlementBundleRead, EntitlementBundleUpdate, Remove))

\* okta_label.  The values are added and removed by name within one request,
\* and a 404 of it makes Terraform forget the label, as the next refresh does
\* here.  The metadata of a value that stays is in no request.
LabelCreate == Post({"body", "parts"}) \o SetId
LabelRead == Forgets
Label == Framework(Resource({"parts"},
  LabelCreate, LabelRead, Put({"parts"}), Quiet(Remove)))
LabelMetadata == Framework(Resource({"body"},
  LabelCreate, LabelRead, Put({"parts"}), Quiet(Remove)))

\* okta_resource_owner.  Nothing is read.
ResourceOwnerCreate == Put({"body"}) \o SetId
ResourceOwnerUpdate == Put({"body"})
ResourceOwner == Framework(Singleton(Resource({"body"},
  ResourceOwnerCreate, Showing({}, Forgets), ResourceOwnerUpdate, << >>)))

\* okta_request_condition.  It is born inactive; a second request follows for
\* the priority.
RequestConditionRequest == {"body", "inactive"}
RequestConditionPatch == {"body"}
RequestConditionCreate ==
  Post(RequestConditionRequest) \o When({"active"}, Activate) \o Put(RequestConditionPatch) \o SetId
RequestConditionRead == Forgets
RequestConditionUpdate == Put(RequestConditionPatch) \o When({"status_changed"}, SetStatus)
RequestConditionDelete == When({"active"}, Deactivate) \o Quiet(Remove)
RequestCondition == Guarded({"remove"}, Framework(Resource({"frozen", "body", "status"},
  RequestConditionCreate, RequestConditionRead, RequestConditionUpdate, RequestConditionDelete)))

\* okta_request_sequence.  It can be imported and deleted.
RequestSequenceRead == FailsIfMissing
RequestSequenceDelete == Remove
RequestSequence == Framework(Imported(Resource({"frozen"},
  Refuse, RequestSequenceRead, Refuse, RequestSequenceDelete)))

\* okta_request_setting_organization and okta_request_setting_resource: they
\* can be imported and updated.
OrganizationSettingsRead == FailsIfMissing
OrganizationSettingsUpdate == Put({"body"})
OrganizationSettings == Framework(Singleton(Resource({"body"},
  Refuse, OrganizationSettingsRead, OrganizationSettingsUpdate, << >>)))

ResourceSettingsPatch == {"body"}
ResourceSettingsRead == FailsIfMissing
ResourceSettingsUpdate == Put(ResourceSettingsPatch)
ResourceSettings == Framework(Singleton(Resource({"body"},
  Refuse, ResourceSettingsRead, ResourceSettingsUpdate, << >>)))

\* okta_request_v2 and okta_end_user_my_requests: a request is made, and
\* neither changed nor taken back.
RequestV2Request == {"body"}
RequestV2Create == Post(RequestV2Request) \o SetId
RequestV2Read == FailsIfMissing
RequestV2 == Framework(Resource({"body"},
  RequestV2Create, RequestV2Read, Refuse, << >>))

MyRequestBody == {"body"}
MyRequestCreate == Post(MyRequestBody) \o SetId
MyRequestRead == FailsIfMissing
MyRequest == Framework(Resource({"body"},
  MyRequestCreate, MyRequestRead, Refuse, << >>))
=============================================================================
