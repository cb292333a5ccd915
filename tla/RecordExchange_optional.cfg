SPECIFICATION Spec
CONSTANTS
    Width <- MCWidth
    CodecIdentity <- MCIdentity
    ProfileSchema = 3
    ProfileMaxDataOctets = 290
    MaxCapabilityProtocols = 2
    MaxCapabilitySchemas = 2
    MaxCapabilityCodecs = 1
    MaxExtensions = 2
    MaxExtensionValueOctets = 2
    MaxOperationOctets = 200
    MaxRepresentationOctets = 300
    MaxOfferDescriptors = 2
    MaxRequestSelections = 2
    MaxCollectionEntries = 200
    MaxFailureDetailOctets = 2
    MaxFailureScopeOctets = 2
    MaxCodecParameterOctets = 2
    MaxRecordOctets = 80
    MaxShortTextOctets = 2
    MaxBodyOctets = 3
    MaxRecipients = 2
    MaxAttachments = 2
    Codecs = {"compact"}
    Records <- MCOptional
    Operations <- MCOperations
    Messages <- MCMessages
    Checkpoints <- MCCheckpoints
    SupportedSets <- MCSupportedSets
    FaultOctets <- MCFaultOctets
INVARIANT UnknownOptionalSkipped
