------------------------------- MODULE ImpinjParams -------------------------------
(*****************************************************************************
The vendor messages and parameters of protocol/impinj.py. All of them carry the
vendor number VENDOR_ID of LLRPStructs.
*****************************************************************************)

EXTENDS LLRPStructs

ImpinjMessagesAndModes ==
    [IMPINJ_ENABLE_EXTENSIONS |-> CustomMsg(21, <<-32>>),
     IMPINJ_ENABLE_EXTENSIONS_RESPONSE |-> CustomMsg(22, <<>>),
     IMPINJ_SAVE_SETTINGS |-> CustomMsg(23, <<1, -7>>),
     IMPINJ_SAVE_SETTINGS_RESPONSE |-> CustomMsg(24, <<>>),
     ImpinjRequestedData |-> CustomTlv(21, <<32>>),
     ImpinjSubRegulatoryRegion |-> CustomTlv(22, <<16>>),
     ImpinjInventorySearchMode |-> CustomTlv(23, <<16>>)]

ImpinjFrequencyParams ==
    [ImpinjFixedFrequencyList |-> CustomTlv(26, <<16, -16, V16>>),
     ImpinjReducedPowerFrequencyList |-> CustomTlv(27, <<16, -16, V16>>),
     ImpinjLowDutyCycle |-> CustomTlv(28, <<16, 16, 16>>),
     ImpinjDetailedVersion |-> CustomTlv(29, <<V8, V8, V8, V8, V8, V8>>),
     ImpinjFrequencyCapabilities |-> CustomTlv(30, <<V32>>)]

ImpinjReaderParams ==
    [ImpinjGPIDebounceConfiguration |-> CustomTlv(36, <<16, 32>>),
     ImpinjReaderTemperature |-> CustomTlv(37, <<16>>),
     ImpinjLinkMonitorConfiguration |-> CustomTlv(38, <<16, 16>>),
     ImpinjReportBufferConfiguration |-> CustomTlv(39, <<16>>),
     ImpinjAccessSpecConfiguration |-> CustomTlv(40, <<>>),
     ImpinjBlockWriteWordCount |-> CustomTlv(41, <<16>>),
     ImpinjTagReportContentSelector |-> CustomTlv(50, <<>>)]

ImpinjTagDataParams ==
    [ImpinjEnableSerializedTID |-> CustomTlv(51, <<16>>),
     ImpinjEnableRFPhaseAngle |-> CustomTlv(52, <<16>>),
     ImpinjEnablePeakRSSI |-> CustomTlv(53, <<16>>),
     ImpinjEnableGPSCoordinates |-> CustomTlv(54, <<16>>),
     ImpinjSerializedTID |-> CustomTlv(55, <<V16>>), ImpinjRFPhaseAngle |-> CustomTlv(56, <<16>>),
     ImpinjPeakRSSI |-> CustomTlv(57, <<16>>)]

ImpinjAccessParams ==
    [ImpinjGPSCoordinates |-> CustomTlv(58, <<32, 32>>),
     ImpinjOpSpecRetryCount |-> CustomTlv(63, <<16>>),
     ImpinjAdvancedGPOConfiguration |-> CustomTlv(64, <<16, 16, 32>>),
     ImpinjEnableOptimizedRead |-> CustomTlv(65, <<16>>),
     ImpinjAccessSpecOrdering |-> CustomTlv(66, <<16>>),
     ImpinjEnableRFDopplerFrequency |-> CustomTlv(67, <<16>>)]

ImpinjDeviceParams ==
    [ImpinjRFDopplerFrequency |-> CustomTlv(68, <<16>>),
     ImpinjArrayVersion |-> CustomTlv(1520, <<V8, V8, V8>>),
     ImpinjHubVersions |-> CustomTlv(1537, <<>>),
     ImpinjHubConfiguration |-> CustomTlv(1538, <<16, 16, 16>>)]

\* The _SLOTS of the vendor classes; most take only further vendor parameters.
ImpinjSlots ==
    [IMPINJ_ENABLE_EXTENSIONS |-> <<Customs>>,
     IMPINJ_ENABLE_EXTENSIONS_RESPONSE |-> <<Req({"LLRPStatus"}), Customs>>,
     IMPINJ_SAVE_SETTINGS |-> <<Customs>>,
     IMPINJ_SAVE_SETTINGS_RESPONSE |-> <<Req({"LLRPStatus"}), Customs>>,
     ImpinjRequestedData |-> <<Customs>>, ImpinjSubRegulatoryRegion |-> <<Customs>>,
     ImpinjInventorySearchMode |-> <<Customs>>, ImpinjFixedFrequencyList |-> <<Customs>>,
     ImpinjReducedPowerFrequencyList |-> <<Customs>>, ImpinjLowDutyCycle |-> <<Customs>>,
     ImpinjDetailedVersion |-> <<Opt({"ImpinjHubVersions"}), Opt({"ImpinjArrayVersion"}), Customs>>,
     ImpinjFrequencyCapabilities |-> <<Customs>>, ImpinjGPIDebounceConfiguration |-> <<Customs>>,
     ImpinjReaderTemperature |-> <<Customs>>, ImpinjLinkMonitorConfiguration |-> <<Customs>>,
     ImpinjReportBufferConfiguration |-> <<Customs>>,
     ImpinjAccessSpecConfiguration |-> <<Opt({"ImpinjBlockWriteWordCount"}),
           Opt({"ImpinjOpSpecRetryCount"}), Opt({"ImpinjAccessSpecOrdering"}), Customs>>,
     ImpinjBlockWriteWordCount |-> <<Customs>>,
     ImpinjTagReportContentSelector |-> <<Opt({"ImpinjEnableSerializedTID"}),
           Opt({"ImpinjEnableRFPhaseAngle"}), Opt({"ImpinjEnablePeakRSSI"}),
           Opt({"ImpinjEnableGPSCoordinates"}), Opt({"ImpinjEnableOptimizedRead"}),
           Opt({"ImpinjEnableRFDopplerFrequency"}), Customs>>,
     ImpinjEnableSerializedTID |-> <<Customs>>, ImpinjEnableRFPhaseAngle |-> <<Customs>>,
     ImpinjEnablePeakRSSI |-> <<Customs>>, ImpinjEnableGPSCoordinates |-> <<Customs>>,
     ImpinjSerializedTID |-> <<Customs>>, ImpinjRFPhaseAngle |-> <<Customs>>,
     ImpinjPeakRSSI |-> <<Customs>>, ImpinjGPSCoordinates |-> <<Customs>>,
     ImpinjOpSpecRetryCount |-> <<Customs>>, ImpinjAdvancedGPOConfiguration |-> <<Customs>>,
     ImpinjEnableOptimizedRead |-> <<Many({"C1G2Read"}), Customs>>,
     ImpinjAccessSpecOrdering |-> <<Customs>>, ImpinjEnableRFDopplerFrequency |-> <<Customs>>,
     ImpinjRFDopplerFrequency |-> <<Customs>>, ImpinjArrayVersion |-> <<Customs>>,
     ImpinjHubVersions |-> <<Some({"ImpinjArrayVersion"}), Customs>>,
     ImpinjHubConfiguration |-> <<Customs>>]

Impinj ==
    ImpinjMessagesAndModes @@ ImpinjFrequencyParams @@ ImpinjReaderParams
    @@ ImpinjTagDataParams @@ ImpinjAccessParams @@ ImpinjDeviceParams

==============================================================================
